---- MODULE Spec2Model ----
(***************************************************************************)
(* Salon receptionist agent: the appointment store and the booking tools   *)
(* (app/agent.py, app/booking_manager.py), the per-conversation session    *)
(* data (app/model.py), and the help-request escalation loop               *)
(* (app/help_request.py, app/helper.py, app/knowledge_base.py).            *)
(*                                                                         *)
(* A tool call / manager method is a sequence of actions.  One action     *)
(* ends, and the next begins, at every await or blocking round trip that  *)
(* has shared state (the two Firestore collections, the Qdrant            *)
(* collection, faq_cache, the clock, the POSTs sent) touched on both      *)
(* sides of it: a read of a document and the update that follows it, an   *)
(* upsert and the return of the call that awaited it, a POST and the      *)
(* return of the call that sent it, are separate actions, and calls of    *)
(* other conversations interleave between them.  A stretch that touches   *)
(* no shared state (the sentence encoder run in the executor, the         *)
(* creation of the collection) is part of the action that follows it.     *)
(* A call suspended between two of its actions is a record in `calls`.    *)
(* External collaborators (Firestore, Qdrant, the webhooks) answer        *)
(* nondeterministically: a call either succeeds or raises, an upsert that *)
(* raised may or may not have been applied, and a timestamp read back     *)
(* from Firestore is naive or timezone-aware as the client builds it.     *)
(***************************************************************************)
EXTENDS Integers, Sequences, FiniteSets, Bags, TLC

VARIABLES
    appointments,   \* Firestore collection "appointments": a bag of documents (the
                    \* auto-generated document ids are never read)
    turn,           \* per conversation: its position in the booking workflow, what
                    \* check_availability and book_appointment returned to it, and its
                    \* book_appointment calls that have not returned yet (held)
    userdata,       \* per conversation: its SalonUserData session object
    manager,        \* which HelpRequestManager class the process instantiated
    config,         \* WEBHOOK_URL / AI_CALLBACK_URL present in the environment or not
    help_requests,  \* Firestore collection "help_requests": document id -> document
    knowledge,      \* Qdrant collection "knowledge_base": the points upserted so far
    faq_cache,      \* KnowledgeManager.faq_cache, the list the lexical tier scans
    webhooks,       \* supervisor webhook POST attempts, in order
    callbacks,      \* AI-agent callback POST attempts, in order
    resolutions,    \* how many resolve_help_request calls have updated a document
    calls,          \* the manager calls suspended at an await, each with its locals
    now,            \* the wall clock (datetime.now()) the handlers read
    result          \* the most recent call: who called what, and what it returned or raised

vars == <<appointments, turn, userdata, manager, config, help_requests,
          knowledge, faq_cache, webhooks, callbacks, resolutions, calls, now, result>>

helpVars == <<manager, config, help_requests, knowledge, faq_cache, webhooks, callbacks,
              resolutions, calls>>

(***************************************************************************)
(* Bounds of the model.                                                    *)
(***************************************************************************)
MaxAppointments == 2
MaxScans == 1
MaxHeld == 1
MaxRequests == 1
MaxResolutions == 2
MaxFetches == 1
MaxClock == 100000
MaxDrift == 2
MaxSyncs == 2
MaxLearned == 2
MaxCalls == 2

\* Python's None for string-valued optionals; numeric optionals are <<>> or <<n>>.
None == "None"
NoNumber == <<>>

Range(s) == {s[i] : i \in DOMAIN s}

(***************************************************************************)
(* Booking: inputs the conversational runtime passes to the tools.         *)
(***************************************************************************)
Convs == {"convA", "convB"}

\* The customer each conversation is talking to (name, phone as dictated).
Customer(c) ==
    IF c = "convA" THEN [customer_name |-> "Jane Doe", phone_number |-> "555-123-4567"]
                   ELSE [customer_name |-> "John Roe", phone_number |-> "12345"]

WalkIn == "Walk In"

Dates == {"March 3, 2025", "March 6, 2025"}

all_slots == <<"9:00 AM", "10:00 AM", "11:00 AM", "1:00 PM", "2:00 PM", "3:00 PM", "4:00 PM">>

MAX_BOOKINGS_PER_SLOT == 2

\* Times a caller may name: a fixed slot, a time outside the slot list, and (for
\* check_availability) the empty default.
BookTimes == {"2:00 PM", "5:00 PM"}
CheckTimes == BookTimes \cup {""}

ServiceInputs == {"Haircut", "Massage"}

\* str.lower() on the service names above.
Lower(s) ==
    CASE s = "Haircut" -> "haircut"
      [] s = "blow dry" -> "blow dry"
      [] s = "Massage" -> "massage"
      [] OTHER -> s

\* self.service_prices (the price list).
PricedServices == {"haircut", "hair coloring", "highlights", "blow dry", "hair treatment"}

service_prices(k) ==
    CASE k = "haircut" -> 40
      [] k = "hair coloring" -> 80
      [] k = "highlights" -> 120
      [] k = "blow dry" -> 30
      [] k = "hair treatment" -> 60

\* The keys of the price list in dict order, and str.title() of each.
ServiceKeys == <<"haircut", "hair coloring", "highlights", "blow dry", "hair treatment">>

Title(k) ==
    CASE k = "haircut" -> "Haircut"
      [] k = "hair coloring" -> "Hair Coloring"
      [] k = "highlights" -> "Highlights"
      [] k = "blow dry" -> "Blow Dry"
      [] k = "hair treatment" -> "Hair Treatment"

\* ", ".join([s.title() for s in self.service_prices.keys()]), as a list.
available_services == [i \in DOMAIN ServiceKeys |-> Title(ServiceKeys[i])]

\* The largest e with 2^e <= n, for n >= 1.
RECURSIVE FloorLog2(_)
FloorLog2(n) == IF n < 2 THEN 0 ELSE 1 + FloorLog2(n \div 2)

\* 2^s modulo m.
RECURSIVE PowerOfTwoMod(_, _)
PowerOfTwoMod(s, m) == IF s = 0 THEN 1 % m ELSE (2 * PowerOfTwoMod(s - 1, m)) % m

\* int(timestamp.timestamp() * 1000) % 100000, with t the clock in milliseconds.
\* timestamp() is the double nearest to t / 1000 and the product with 1000 is
\* rounded to a double again before int() truncates it, so the integer is t - 1
\* where the product falls below t, and t elsewhere.  With e the binary exponent
\* of t, the quotient has exponent e - 10 or e - 9 and its 53-bit mantissa is
\* t * 2^(61 - e) / 1000 (or twice that) rounded to the nearest integer.  The
\* product falls below t exactly when the exponent is e - 9 (near) and the
\* division leaves a remainder above 256 and up to 500: the quotient is then
\* rounded down by more than 256/1000 of its last bit, which is more than half
\* of the last bit of the product.
ConfirmationModulus == 100000
confirmation_number(t) ==
    LET e == FloorLog2(t)
        near == IF e >= 9 THEN 1000 * 2^(e - 9) <= t ELSE 1000 <= t * 2^(9 - e)
        remainder == ((t % 1000) * PowerOfTwoMod(61 - e, 1000)) % 1000
        milliseconds == IF t > 0 /\ near /\ remainder > 256 /\ remainder <= 500
                        THEN t - 1
                        ELSE t
    IN  <<"SA", milliseconds % ConfirmationModulus>>

(***************************************************************************)
(* The appointment store.                                                  *)
(***************************************************************************)
\* .where(appointment_date == date).where(appointment_time == time).count()
RECURSIVE CopiesOfAll(_, _)
CopiesOfAll(bag, docs) ==
    IF docs = {} THEN 0
    ELSE LET d == CHOOSE x \in docs : TRUE
         IN  CopiesIn(d, bag) + CopiesOfAll(bag, docs \ {d})

SlotCount_by_date(date, time) ==
    CopiesOfAll(appointments,
                {d \in BagToSet(appointments) : d.appointment_date = date})

SlotCount(date, time) ==
    CopiesOfAll(appointments,
                {d \in BagToSet(appointments) :
                    /\ d.appointment_date = date
                    /\ d.appointment_time = time})

NewBooking_with_zero_price(customer_name, service, appointment_date, appointment_time, phone_number, price, timestamp) ==
    [confirmation_number |-> confirmation_number(timestamp),
     customer_name |-> customer_name,
     service |-> service,
     appointment_date |-> appointment_date,
     appointment_time |-> appointment_time,
     phone_number |-> phone_number,
     price |-> 0,
     status |-> "confirmed",
     created_at |-> timestamp,
     updated_at |-> timestamp,
     cancelled |-> FALSE,
     cancellation_reason |-> None]

\* The document create_booking._create builds.
NewBooking(customer_name, service, appointment_date, appointment_time, phone_number, price, timestamp) ==
    [confirmation_number |-> confirmation_number(timestamp),
     customer_name |-> customer_name,
     service |-> service,
     appointment_date |-> appointment_date,
     appointment_time |-> appointment_time,
     phone_number |-> phone_number,
     price |-> price,
     status |-> "confirmed",
     created_at |-> timestamp,
     updated_at |-> timestamp,
     cancelled |-> FALSE,
     cancellation_reason |-> None]

(***************************************************************************)
(* Session data (SalonUserData / BookingContext).                          *)
(***************************************************************************)
BookingContext ==
    [customer_name |-> None, phone_number |-> None, service |-> None,
     appointment_date |-> None, appointment_time |-> None,
     price |-> NoNumber, confirmed |-> FALSE]

is_complete_requiring_price(b) ==
    /\ b.price # NoNumber
    /\ \A f \in {"customer_name", "phone_number", "service", "appointment_date", "appointment_time"} :
          b[f] # None /\ b[f] # ""

\* all([...]) over the five required fields: None and "" are falsy.
is_complete(b) ==
    \A f \in {"customer_name", "phone_number", "service", "appointment_date", "appointment_time"} :
        b[f] # None /\ b[f] # ""

SalonUserData ==
    [current_booking |-> BookingContext,
     conversation_state |-> "greeting",
     previous_queries |-> <<>>,
     availability_checks |-> <<>>,
     waiting_for_confirmation |-> FALSE,
     validation_errors |-> <<>>,
     retry_count |-> 0]

(***************************************************************************)
(* Assistant.check_availability(date, time).  Every count query is a       *)
(* blocking round trip to Firestore, so the call is a sequence of steps,   *)
(* one query each, and writes of other callers land between them.          *)
(* turn[c] holds the call of conversation c that is in flight: the counts  *)
(* read so far and the slot to query next.  storeOk = FALSE: the query     *)
(* raised; the handler catches it and returns its fallback string.         *)
(***************************************************************************)
NoTurn == [pc |-> "start", check |-> [kind |-> "none"], book |-> [kind |-> "none"],
           held |-> <<>>]

\* slot_count < MAX_BOOKINGS_PER_SLOT
BelowMaximum_inclusive(slot_count) == slot_count <= MAX_BOOKINGS_PER_SLOT

BelowMaximum(slot_count) == slot_count < MAX_BOOKINGS_PER_SLOT

\* available_slots.append(slot)
AppendSlot(available_slots, slot) == Append(available_slots, slot)

\* The locals of a call that has entered one of its two loops over all_slots.
NewScan(date, time, slot_count) ==
    [kind |-> "scan", date |-> date, time |-> time, slot_count |-> slot_count,
     slots |-> <<>>, next |-> 1]

\* One iteration of the loop: the count query of all_slots[next] and the append.
ReadSlot(scan) ==
    [scan EXCEPT !.slots = IF BelowMaximum(SlotCount(scan.date, all_slots[scan.next]))
                           THEN AppendSlot(@, all_slots[scan.next])
                           ELSE @,
                 !.next = @ + 1]

\* What the call returns once its loop has run through all_slots.
ScanReturn(scan) ==
    IF scan.time # ""
    THEN IF scan.slots # <<>>
         THEN [kind |-> "full", date |-> scan.date, time |-> scan.time,
               slot_count |-> scan.slot_count, slots |-> scan.slots]
         ELSE [kind |-> "all_full", date |-> scan.date, time |-> scan.time,
               slot_count |-> scan.slot_count, slots |-> <<>>]
    ELSE IF scan.slots # <<>>
         THEN [kind |-> "times", date |-> scan.date, time |-> scan.time,
               slot_count |-> NoNumber, slots |-> scan.slots]
         ELSE [kind |-> "fully_booked", date |-> scan.date, time |-> scan.time,
               slot_count |-> NoNumber, slots |-> <<>>]

\* The call after one more iteration: still scanning (kind "scan"), or its return value.
ScanOutcome(scan, storeOk) ==
    IF ~storeOk
    THEN [kind |-> "error", date |-> scan.date, time |-> scan.time,
          slot_count |-> NoNumber, slots |-> <<>>]
    ELSE IF ReadSlot(scan).next > Len(all_slots)
    THEN ScanReturn(ReadSlot(scan))
    ELSE ReadSlot(scan)

\* The call from its entry through its first count query.
CheckAvailabilityEntry(date, time, storeOk) ==
    IF time # "" /\ time \notin Range(all_slots)
    THEN [kind |-> "outside_hours", date |-> date, time |-> time,
          slot_count |-> NoNumber, slots |-> all_slots]
    ELSE IF ~storeOk
    THEN [kind |-> "error", date |-> date, time |-> time,
          slot_count |-> NoNumber, slots |-> <<>>]
    ELSE IF time # ""
    THEN IF BelowMaximum(SlotCount(date, time))
         THEN [kind |-> "available", date |-> date, time |-> time,
               slot_count |-> <<SlotCount(date, time)>>, slots |-> <<>>]
         ELSE NewScan(date, time, <<SlotCount(date, time)>>)
    ELSE ScanOutcome(NewScan(date, time, NoNumber), storeOk)

\* A step of the call: it only reads the store.  While the loop runs the step is a
\* count query; the step that ends the call hands its return value to the caller,
\* who keeps it in turn[c] (keep) or not.
CheckAvailabilityStep(c, date, time, storeOk, outcome, keep) ==
    /\ IF outcome.kind = "scan"
       THEN /\ turn' = [turn EXCEPT ![c] = [@ EXCEPT !.pc = "checking", !.check = outcome]]
            /\ result' = [op |-> "count_query", who |-> c,
                          args |-> [date |-> date, time |-> time],
                          env |-> [store |-> storeOk],
                          value |-> [kind |-> "scan", slots |-> outcome.slots]]
       ELSE /\ turn' = [turn EXCEPT ![c] =
                          IF keep
                          THEN [pc |-> "checked", check |-> outcome, book |-> turn[c].book,
                                held |-> turn[c].held]
                          ELSE [NoTurn EXCEPT !.held = turn[c].held]]
            /\ result' = [op |-> "check_availability", who |-> c,
                          args |-> [date |-> date, time |-> time],
                          env |-> [store |-> storeOk],
                          value |-> outcome]
    /\ UNCHANGED <<appointments, userdata, now>>
    /\ UNCHANGED helpVars

\* The model bounds the number of calls that are inside a loop over all_slots.
CheckAvailabilityCall(c, date, time, storeOk, keep) ==
    /\ turn[c].pc # "checking"
    /\ CheckAvailabilityEntry(date, time, storeOk).kind = "scan"
          => Cardinality({other \in Convs : turn[other].pc = "checking"}) < MaxScans
    /\ CheckAvailabilityStep(c, date, time, storeOk,
                             CheckAvailabilityEntry(date, time, storeOk), keep)

CheckAvailabilityQuery(c, storeOk, keep) ==
    /\ turn[c].pc = "checking"
    /\ CheckAvailabilityStep(c, turn[c].check.date, turn[c].check.time, storeOk,
                             ScanOutcome(turn[c].check, storeOk), keep)

check_availability(c, date, time) ==
    \E storeOk \in BOOLEAN : CheckAvailabilityCall(c, date, time, storeOk, FALSE)

check_availability_query(c) ==
    \E storeOk \in BOOLEAN : CheckAvailabilityQuery(c, storeOk, FALSE)

(***************************************************************************)
(* BookingManager.create_booking.  The timestamp is read on the event loop *)
(* when the call is entered; the document is built and written by _create  *)
(* in a pool thread while the call is suspended at run_in_executor.  It    *)
(* reads no count and no session state.  The operators below are the       *)
(* write of _create for a call entered at `timestamp`.  storeOk = FALSE:   *)
(* doc_ref.set raised and the exception is re-raised to the tool.          *)
(***************************************************************************)
create_booking_into_slot_document(customer_name, service, appointment_date, appointment_time, phone_number, price, timestamp, storeOk) ==
    IF storeOk
    THEN appointments' =
            SetToBag({d \in BagToSet(appointments) :
                         ~(d.appointment_date = appointment_date
                           /\ d.appointment_time = appointment_time)})
            (+) SetToBag({NewBooking(customer_name, service, appointment_date, appointment_time,
                                     phone_number, price, timestamp)})
    ELSE appointments' = appointments

\* A failed write is tried again, and the second attempt goes through.
create_booking_retrying(customer_name, service, appointment_date, appointment_time, phone_number, price, timestamp, storeOk) ==
    appointments' = appointments (+)
        SetToBag({NewBooking(customer_name, service, appointment_date, appointment_time,
                             phone_number, price, timestamp)})

create_booking_rechecking(customer_name, service, appointment_date, appointment_time, phone_number, price, timestamp, storeOk) ==
    IF storeOk /\ SlotCount(appointment_date, appointment_time) < MAX_BOOKINGS_PER_SLOT
    THEN appointments' = appointments (+)
            SetToBag({NewBooking(customer_name, service, appointment_date, appointment_time,
                                 phone_number, price, timestamp)})
    ELSE appointments' = appointments

create_booking(customer_name, service, appointment_date, appointment_time, phone_number, price, timestamp, storeOk) ==
    IF storeOk
    THEN appointments' = appointments (+)
            SetToBag({NewBooking(customer_name, service, appointment_date, appointment_time,
                                 phone_number, price, timestamp)})
    ELSE appointments' = appointments

(***************************************************************************)
(* Assistant.book_appointment(customer_name, service, phone_number,        *)
(* appointment_date, appointment_time), in three steps: the entry, which   *)
(* looks up the price and reads the clock; the write in the pool thread;   *)
(* the return once the event loop resumes the call.  Between the steps     *)
(* the clock moves and other calls run.  book_appointment of               *)
(* app/livekit_agent/agent.py takes no phone number (create_booking        *)
(* stores its default, the empty string) and returns a text without one.   *)
(***************************************************************************)
BookAppointmentReturn(c, service, appointment_date, appointment_time, timestamp, storeOk) ==
    IF Lower(service) \notin PricedServices
    THEN [kind |-> "unrecognized_service", service |-> service,
          services |-> available_services]
    ELSE IF ~storeOk
    THEN [kind |-> "supervisor_fallback", service |-> service]
    ELSE [kind |-> "confirmation", service |-> service,
          confirmation_number |-> confirmation_number(timestamp),
          customer_name |-> Customer(c).customer_name,
          phone_number |-> Customer(c).phone_number,
          price |-> service_prices(Lower(service)),
          appointment_date |-> appointment_date,
          appointment_time |-> appointment_time,
          status |-> "confirmed"]

\* The appointments the conversations have booked or are about to write; the bound
\* of the model is on these.
BookedSoFar ==
    CopiesOfAll(appointments, {d \in BagToSet(appointments) : d.customer_name # WalkIn})
      + Cardinality({<<c, i>> \in Convs \X (1 .. MaxHeld) :
                        i \in DOMAIN turn[c].held /\ turn[c].held[i].stage = "submitted"})

\* What the tool hands to the runtime when the call with locals `call` ends, and
\* what the conversation then holds: the call leaves `held`, and a runtime that keeps
\* tool results in the chat context (call.keep) has the result in turn[c].book.
BookAppointmentEnds(c, i, call, storeOk) ==
    LET value == IF call.agent = "livekit_agent"
                 THEN [f \in DOMAIN BookAppointmentReturn(c, call.service, call.date, call.time,
                                                          call.timestamp, storeOk)
                              \ {"phone_number", "status"} |->
                          BookAppointmentReturn(c, call.service, call.date, call.time,
                                                call.timestamp, storeOk)[f]]
                 ELSE BookAppointmentReturn(c, call.service, call.date, call.time,
                                            call.timestamp, storeOk)
        held == IF i \in DOMAIN turn[c].held
                THEN [j \in 1 .. (Len(turn[c].held) - 1) |->
                         IF j < i THEN turn[c].held[j] ELSE turn[c].held[j + 1]]
                ELSE turn[c].held
    IN  /\ result' = [op |-> "book_appointment", who |-> c,
                      args |-> [service |-> call.service, date |-> call.date,
                                time |-> call.time],
                      env |-> IF call.agent = "livekit_agent"
                              THEN [store |-> storeOk, agent |-> "livekit_agent"]
                              ELSE [store |-> storeOk],
                      value |-> value]
        /\ turn' = [turn EXCEPT ![c] =
                        IF call.keep
                        THEN [pc |-> IF \/ i \in DOMAIN turn[c].held /\ turn[c].pc = "booking"
                                        \/ /\ i \notin DOMAIN turn[c].held
                                           /\ turn[c].pc = "checked"
                                           /\ turn[c].held = <<>>
                                     THEN "booked"
                                     ELSE IF turn[c].pc = "checking" THEN "checking"
                                     ELSE "start",
                              check |-> IF turn[c].pc \in {"checked", "checking", "booking"}
                                        THEN turn[c].check
                                        ELSE [kind |-> "none"],
                              book |-> value,
                              held |-> held]
                        ELSE [@ EXCEPT !.held = held]]

\* The entry of the call.  An unrecognized service is answered at once.  Otherwise
\* create_booking reads the clock and hands _create to the executor: the call is
\* suspended with its locals.
BookAppointmentCall(c, service, appointment_date, appointment_time, agent, keep) ==
    /\ BookedSoFar < MaxAppointments
    /\ Len(turn[c].held) < MaxHeld
    /\ LET call == [service |-> service, date |-> appointment_date,
                    time |-> appointment_time,
                    phone_number |-> IF agent = "livekit_agent" THEN ""
                                     ELSE Customer(c).phone_number,
                    price |-> IF Lower(service) \in PricedServices
                              THEN <<service_prices(Lower(service))>> ELSE NoNumber,
                    timestamp |-> now, stage |-> "submitted",
                    agent |-> agent, keep |-> keep]
       IN  IF Lower(service) \notin PricedServices
           THEN BookAppointmentEnds(c, Len(turn[c].held) + 1, call, TRUE)
           ELSE /\ turn' = [turn EXCEPT ![c] =
                               [@ EXCEPT !.held = Append(@, call),
                                         !.pc = IF ~keep \/ @ = "checking" THEN @
                                                ELSE IF @ = "checked" /\ turn[c].held = <<>>
                                                THEN "booking"
                                                ELSE "start"]]
                /\ result' = [op |-> "run_in_executor", who |-> c,
                              args |-> [service |-> service, date |-> appointment_date,
                                        time |-> appointment_time],
                              env |-> [timestamp |-> now],
                              value |-> [kind |-> "suspended"]]
    /\ UNCHANGED <<appointments, userdata, now>>
    /\ UNCHANGED helpVars

book_appointment(c, service, appointment_date, appointment_time) ==
    BookAppointmentCall(c, service, appointment_date, appointment_time, "agent", FALSE)

\* _create runs in the pool thread: doc_ref.set stores the document built from the
\* locals of the call, stamped with the clock the call read at its entry.  If the
\* store raises, nothing is stored and the call ends with the fallback text.
create_booking_runs(c) ==
    \E i \in DOMAIN turn[c].held, storeOk \in BOOLEAN :
        LET call == turn[c].held[i]
        IN  /\ call.stage = "submitted"
            /\ create_booking(Customer(c).customer_name, call.service, call.date, call.time,
                              call.phone_number, call.price[1], call.timestamp, storeOk)
            /\ IF storeOk
               THEN /\ turn' = [turn EXCEPT ![c].held[i].stage = "stored"]
                    /\ result' = [op |-> "create_booking", who |-> c,
                                  args |-> [service |-> call.service, date |-> call.date,
                                            time |-> call.time],
                                  env |-> [store |-> storeOk, timestamp |-> call.timestamp],
                                  value |-> [kind |-> "stored"]]
               ELSE BookAppointmentEnds(c, i, call, FALSE)
            /\ UNCHANGED <<userdata, now>>
            /\ UNCHANGED helpVars

\* The event loop resumes the call after the write: the confirmation is built from
\* the document _create returned.
book_appointment_returns(c) ==
    \E i \in DOMAIN turn[c].held :
        /\ turn[c].held[i].stage = "stored"
        /\ BookAppointmentEnds(c, i, turn[c].held[i], TRUE)
        /\ UNCHANGED <<appointments, userdata, now>>
        /\ UNCHANGED helpVars

(***************************************************************************)
(* The tools of app/livekit_agent/agent.py, the earlier agent.  It shares  *)
(* the appointment store; a slot counts as taken once it holds one booking.*)
(***************************************************************************)
\* BookingManager.get_bookings_by_date: _query, run in a pool thread, streams the
\* documents of the date as the store holds them at that moment.
get_bookings_by_date(date) == {d \in BagToSet(appointments) : d.appointment_date = date}

booked_times(existing_bookings) == {d.appointment_time : d \in existing_bookings}

available_times(existing_bookings) ==
    SelectSeq(all_slots, LAMBDA slot : slot \notin booked_times(existing_bookings))

\* What check_availability answers from the documents its query handed back.
LivekitCheckAvailabilityReturn(date, time, existing_bookings) ==
    IF time # ""
    THEN IF time \in Range(available_times(existing_bookings))
         THEN [kind |-> "available", date |-> date, time |-> time, slots |-> <<>>]
         ELSE IF time \in booked_times(existing_bookings)
              THEN [kind |-> "full", date |-> date, time |-> time,
                    slots |-> available_times(existing_bookings)]
              ELSE [kind |-> "outside_hours", date |-> date, time |-> time,
                    slots |-> available_times(existing_bookings)]
    ELSE IF available_times(existing_bookings) # <<>>
         THEN [kind |-> "times", date |-> date, time |-> time,
               slots |-> available_times(existing_bookings)]
         ELSE [kind |-> "fully_booked", date |-> date, time |-> time, slots |-> <<>>]

\* The entry of check_availability, up to its await: _query reads the store and the
\* call is suspended holding the documents.  If the query raises, the handler
\* returns its fallback text.  The model bounds the number of suspended calls.
livekit_check_availability(c, date, time) ==
    /\ turn[c].pc # "checking"
    /\ Cardinality({other \in Convs : turn[other].pc = "checking"}) < MaxScans
    /\ \E storeOk \in BOOLEAN :
        IF storeOk
        THEN /\ turn' = [turn EXCEPT ![c] =
                            [@ EXCEPT !.pc = "checking",
                                      !.check = [kind |-> "bookings", date |-> date,
                                                 time |-> time,
                                                 existing_bookings |->
                                                     get_bookings_by_date(date)]]]
             /\ result' = [op |-> "get_bookings_by_date", who |-> c,
                           args |-> [date |-> date, time |-> time],
                           env |-> [store |-> TRUE, agent |-> "livekit_agent"],
                           value |-> [kind |-> "bookings",
                                      existing_bookings |-> get_bookings_by_date(date)]]
        ELSE /\ turn' = turn
             /\ result' = [op |-> "check_availability", who |-> c,
                           args |-> [date |-> date, time |-> time],
                           env |-> [store |-> FALSE, agent |-> "livekit_agent"],
                           value |-> [kind |-> "error", date |-> date, time |-> time,
                                      slots |-> <<>>]]
    /\ UNCHANGED <<appointments, userdata, now>>
    /\ UNCHANGED helpVars

\* The event loop resumes the call: the answer is computed from the documents read
\* by the query, whatever the store holds by now.
livekit_check_availability_returns(c) ==
    /\ turn[c].pc = "checking"
    /\ turn[c].check.kind = "bookings"
    /\ turn' = [turn EXCEPT ![c] = [NoTurn EXCEPT !.held = turn[c].held]]
    /\ result' = [op |-> "check_availability", who |-> c,
                  args |-> [date |-> turn[c].check.date, time |-> turn[c].check.time],
                  env |-> [store |-> TRUE, agent |-> "livekit_agent"],
                  value |-> LivekitCheckAvailabilityReturn(turn[c].check.date,
                                                           turn[c].check.time,
                                                           turn[c].check.existing_bookings)]
    /\ UNCHANGED <<appointments, userdata, now>>
    /\ UNCHANGED helpVars

livekit_book_appointment(c, service, appointment_date, appointment_time) ==
    BookAppointmentCall(c, service, appointment_date, appointment_time, "livekit_agent", FALSE)

(***************************************************************************)
(* The tools as a conversation calls them: the runtime keeps what the last *)
(* check_availability and the last book_appointment returned in the        *)
(* conversation's context.  The order "check, then book the slot reported  *)
(* available" is an instruction of the prompt, not a condition of the      *)
(* tools: book_appointment runs whatever was or was not checked before.    *)
(* pc = "booking": since the last check returned, one booking and no       *)
(* check has been entered, with no earlier booking still in flight;        *)
(* pc = "booked": that booking has returned.                               *)
(***************************************************************************)
ConversationChecks(c, date, time) ==
    \E storeOk \in BOOLEAN : CheckAvailabilityCall(c, date, time, storeOk, TRUE)

ConversationQueries(c) ==
    \E storeOk \in BOOLEAN : CheckAvailabilityQuery(c, storeOk, TRUE)

ConversationBooks(c, service, appointment_date, appointment_time) ==
    BookAppointmentCall(c, service, appointment_date, appointment_time, "agent", TRUE)

(***************************************************************************)
(* Help requests: HelpRequestManager exists twice, in app/help_request.py  *)
(* (documents carry "question") and in app/helper.py (documents carry      *)
(* "reason" and "customer_context").  A process instantiates one of them.  *)
(***************************************************************************)
Managers == {"help_request", "helper"}

\* What a conversation asks, and the room it runs in (None: the job has no room).
HelpInputs ==
    {[question |-> "Do you accept crypto?", room_name |-> "room-A"],
     [question |-> "Do you offer gift cards?", room_name |-> None]}

\* SupervisorResponse payloads (answer, resolution_notes, kb_category).
SupervisorResponses ==
    {[answer |-> "Yes, via X", resolution_notes |-> None, kb_category |-> "general"],
     [answer |-> "No", resolution_notes |-> "asked the owner", kb_category |-> "payments"]}

\* Outcomes of one HTTP POST: status 200, another status, a timeout, another exception.
PostOutcomes == {"200", "non_200", "timeout", "exception"}

\* Document ids, in the order Firestore sorts them.  0 is a document some other
\* client left in the collection with no fields; EarlierRequestId is a request an
\* earlier run of the process created; the other ids are those a new request can
\* get, some sorting before the earlier request's id and some after it.
RequestIds == 0 .. (2 * MaxRequests + 1)
EmptyDocId == 0
EmptyDoc == <<>>
EarlierRequestId == MaxRequests + 1

\* The ids no document and no call in flight holds.  str(uuid4()) in
\* app/help_request.py and the auto-id of document() in app/helper.py are random:
\* a new request gets any of them.  Ids are only told apart by their order among
\* pending requests, so while the collection holds no request of an earlier run
\* the smallest unused id stands for all of them.
UnusedIds ==
    LET free == (RequestIds \ {EmptyDocId, EarlierRequestId})
                   \ (DOMAIN help_requests
                         \cup {call.request_id :
                                  call \in {x \in calls : x.op = "create_help_request"}})
    IN  IF EarlierRequestId \in DOMAIN help_requests
        THEN free
        ELSE {i \in free : \A j \in free : i <= j}

\* Calls in flight are told apart by a number: the smallest one no call in
\* flight carries.
FreshCall == CHOOSE n \in 1 .. (Cardinality(calls) + 1) :
                /\ \A call \in calls : call.number # n
                /\ \A m \in 1 .. (n - 1) : \E call \in calls : call.number = m

QuestionField == IF manager = "help_request" THEN "question" ELSE "reason"

\* How many ticks the clock moves between two datetime.now() reads of one call.
ClockReadGaps == {0, 1}

PENDING == "pending"
RESOLVED == "resolved"

\* The document create_help_request writes.  app/help_request.py takes a question
\* and a room; app/helper.py takes a customer_context as well, None by default
\* (an optional dict argument is <<>> for None and <<dict>> for a dict) and stores
\* `customer_context or {}`.
NewHelpRequest(question, room_name, customer_context, timestamp) ==
    IF manager = "help_request"
    THEN [question |-> question,
          answer |-> None,
          status |-> PENDING,
          room_name |-> room_name,
          created_at |-> timestamp,
          updated_at |-> timestamp,
          resolution_notes |-> None,
          response_time_seconds |-> NoNumber,
          resolved_by |-> None,
          resolved_at |-> NoNumber]
    ELSE [reason |-> question,
          status |-> PENDING,
          room_name |-> room_name,
          customer_context |-> IF customer_context = <<>> THEN EmptyDoc
                               ELSE customer_context[1],
          created_at |-> timestamp,
          updated_at |-> timestamp,
          resolution_notes |-> None,
          answer |-> None,
          response_time_seconds |-> NoNumber]

UpdateData_without_response_time(doc, answer, resolution_notes, t1, t2, t3) ==
    [status |-> RESOLVED,
     answer |-> answer,
     resolution_notes |-> resolution_notes,
     updated_at |-> t2,
     resolved_by |-> "supervisor",
     resolved_at |-> <<t3>>]

\* update_data of resolve_help_request: t1, t2, t3 are its three datetime.now() reads.
UpdateData(doc, answer, resolution_notes, t1, t2, t3) ==
    [status |-> RESOLVED,
     answer |-> answer,
     resolution_notes |-> resolution_notes,
     updated_at |-> t2,
     response_time_seconds |-> <<t1 - doc.created_at>>,
     resolved_by |-> "supervisor",
     resolved_at |-> <<t3>>]

DocUpdate_reopening(doc, update_data) ==
    [f \in (DOMAIN doc) \cup (DOMAIN update_data) |->
        IF f = "status" /\ doc.status = RESOLVED THEN PENDING
        ELSE IF f \in DOMAIN update_data THEN update_data[f] ELSE doc[f]]

\* doc_ref.update(update_data): the named fields are set, the others kept.
DocUpdate(doc, update_data) ==
    [f \in (DOMAIN doc) \cup (DOMAIN update_data) |->
        IF f \in DOMAIN update_data THEN update_data[f] ELSE doc[f]]

UpdateDocStage_missing_as_corrupt(request_id, storeOk) ==
    IF ~storeOk THEN "store_error"
    ELSE IF request_id \notin DOMAIN help_requests THEN "corrupt_record"
    ELSE IF DOMAIN help_requests[request_id] = {} THEN "corrupt_record"
    ELSE "resolved"

\* How far update_doc / get_and_update gets.  storeOk = FALSE: Firestore raised.
UpdateDocStage(request_id, storeOk) ==
    IF ~storeOk THEN "store_error"
    ELSE IF request_id \notin DOMAIN help_requests THEN "not_found"
    ELSE IF DOMAIN help_requests[request_id] = {} THEN "corrupt_record"
    ELSE "resolved"

\* The upsert replaces what the collection held.
add_to_knowledge_base_replacing(points, question, answer, category) ==
    <<[question |-> question, answer |-> answer, category |-> category]>>

\* KnowledgeManager.add_to_knowledge_base: one new point (fresh uuid) is upserted.
add_to_knowledge_base(points, question, answer, category) ==
    Append(points, [question |-> question, answer |-> answer, category |-> category])

\* The knowledge-base step of resolve_help_request, once the update is written.
\* app/help_request.py awaits add_to_knowledge_base, which adds the point or raises.
\* app/helper.py hands the coroutine function to run_in_executor: the call only
\* creates a coroutine object, which is never awaited, so nothing is encoded or
\* upserted and nothing raises.
KnowledgeOutcomes(stage, add_to_kb) ==
    IF stage # "resolved" THEN {"not_reached"}
    ELSE IF ~add_to_kb THEN {"not_requested"}
    ELSE IF manager = "helper" THEN {"never_awaited"}
    ELSE {"added", "kb_error"}

\* The supervisor is notified before the document write is known to have worked.
WebhookOutcomes_before_write(storeOk) ==
    IF ~config.webhook_url THEN {"not_configured"} ELSE PostOutcomes

\* _notify_supervisor is reached once the document is written.  With no URL
\* configured it returns at once; otherwise client.post is awaited and comes back
\* with one of the outcomes of a POST.
WebhookOutcomes(storeOk) ==
    IF ~storeOk THEN {"not_reached"}
    ELSE IF ~config.webhook_url THEN {"not_configured"}
    ELSE PostOutcomes

\* A POST that did not come back with status 200 is sent a second time.
PostAttempts_retrying_failures(log, outcome, payload) ==
    IF outcome = "200" THEN log ELSE Append(log, payload)

\* The POSTs a notifier has made once its client.post has come back with
\* `outcome`: the status is only logged and an exception is caught and logged,
\* so nothing more is sent.
PostAttempts(log, outcome, payload) == log

CreateReturn_raising_webhook_failures(request_id, storeOk, hook) ==
    IF storeOk /\ hook \notin {"timeout", "exception"}
    THEN [kind |-> "request_id", request_id |-> request_id]
    ELSE [kind |-> "store_error"]

\* What create_help_request hands back: the id, or the store's exception.
CreateReturn(request_id, storeOk, hook) ==
    IF storeOk THEN [kind |-> "request_id", request_id |-> request_id]
    ELSE [kind |-> "store_error"]

\* The payload _notify_supervisor posts; os.getenv('DASHBOARD_URL', '') is ''.
WebhookPayload(request_id, help_request) ==
    IF manager = "help_request"
    THEN [event |-> "help_request_created",
          request_id |-> request_id,
          question |-> help_request.question,
          room_name |-> help_request.room_name,
          created_at |-> help_request.created_at]
    ELSE [event |-> "help_request_created",
          request_id |-> request_id,
          reason |-> help_request.reason,
          room_name |-> help_request.room_name,
          customer_context |-> help_request.customer_context,
          created_at |-> help_request.created_at,
          dashboard_url |-> <<"", "/help-requests/", request_id>>]

\* What the awaiting caller gets once create_help_request has returned or raised:
\* the caller of the manager itself (tool "none"), or the request_help tool of an
\* agent.
CreateResult(caller, input, request_id, storeOk, hook) ==
    IF caller.tool = "none"
    THEN [op |-> "create_help_request", who |-> "agent",
          args |-> input,
          env |-> [store |-> storeOk, webhook |-> hook],
          value |-> CreateReturn(request_id, storeOk, hook)]
    ELSE [op |-> "request_help", who |-> caller.who,
          args |-> [question |-> caller.question],
          env |-> [agent |-> caller.agent,
                   calls |-> caller.calls,
                   store |-> IF storeOk THEN "written" ELSE "store_error",
                   webhook |-> hook],
          value |-> IF CreateReturn(request_id, storeOk, hook).kind = "request_id"
                    THEN caller.hold_on
                    ELSE [kind |-> "technical_issue"]]

\* The entry of create_help_request: app/help_request.py draws the uuid4 id here,
\* app/helper.py leaves it to the write; the timestamp is the clock read
\* `timestamp` and the document is built; the write is handed to the executor and
\* the call is suspended in `calls` with its locals.
CreateHelpRequestCall(input, customer_context, caller, timestamp) ==
    /\ Cardinality(DOMAIN help_requests \ {EmptyDocId, EarlierRequestId})
          + Cardinality({call \in calls : call.op = "create_help_request"
                                            /\ call.stage = "submitted"}) < MaxRequests
    /\ \E request_id \in (IF manager = "help_request" THEN UnusedIds ELSE {EmptyDocId}) :
          calls' = calls \cup {[op |-> "create_help_request",
                                number |-> FreshCall,
                                stage |-> "submitted",
                                request_id |-> request_id,
                                args |-> input,
                                help_request |-> NewHelpRequest(input.question,
                                                                input.room_name,
                                                                customer_context, timestamp),
                                caller |-> caller]}
    /\ now' = timestamp
    /\ result' = [op |-> "run_in_executor", who |-> "agent",
                  args |-> input,
                  env |-> [timestamp |-> timestamp],
                  value |-> [kind |-> "suspended"]]
    /\ UNCHANGED <<manager, config, help_requests, knowledge, faq_cache, webhooks,
                   callbacks, resolutions>>
    /\ UNCHANGED <<appointments, turn, userdata>>

create_help_request(input) ==
    CreateHelpRequestCall(input, <<>>, [tool |-> "none"], now)

\* write_doc / create_doc runs in the pool thread: the document built at the entry
\* is stored, under the id drawn at the entry (app/help_request.py) or under an
\* auto-id drawn here (app/helper.py).  The call stays suspended until the event
\* loop resumes it; if the write raised, it ends with that exception.
write_doc(call) ==
    /\ call.op = "create_help_request"
    /\ call.stage = "submitted"
    /\ \E storeOk \in BOOLEAN :
       \E request_id \in (IF call.request_id = EmptyDocId THEN UnusedIds
                          ELSE {call.request_id}) :
            IF storeOk
            THEN /\ help_requests' = [i \in DOMAIN help_requests \cup {request_id} |->
                                        IF i = request_id THEN call.help_request
                                        ELSE help_requests[i]]
                 /\ calls' = (calls \ {call})
                                \cup {[call EXCEPT !.stage = "written",
                                                   !.request_id = request_id]}
                 /\ result' = [op |-> "write_doc", who |-> "agent",
                               args |-> call.args,
                               env |-> [store |-> storeOk],
                               value |-> [kind |-> "written", request_id |-> request_id]]
                 /\ webhooks' = webhooks
            ELSE /\ \E hook \in WebhookOutcomes(storeOk) :
                      /\ webhooks' = IF hook \in PostOutcomes
                                     THEN Append(webhooks,
                                                 WebhookPayload(request_id,
                                                                call.help_request))
                                     ELSE webhooks
                      /\ result' = CreateResult(call.caller, call.args, request_id,
                                                storeOk, hook)
                 /\ calls' = calls \ {call}
                 /\ UNCHANGED help_requests
    /\ UNCHANGED <<manager, config, knowledge, faq_cache, callbacks, resolutions, now>>
    /\ UNCHANGED <<appointments, turn, userdata>>

\* _notify_supervisor up to its await: with no URL configured it returns and
\* create_help_request hands back the id; otherwise client.post sends the webhook
\* and the call is suspended until the POST comes back.
notify_supervisor(call) ==
    /\ call.op = "create_help_request"
    /\ call.stage = "written"
    /\ IF WebhookOutcomes(TRUE) \subseteq PostOutcomes
       THEN /\ webhooks' = Append(webhooks,
                                  WebhookPayload(call.request_id, call.help_request))
            /\ calls' = (calls \ {call}) \cup {[call EXCEPT !.stage = "posted"]}
            /\ result' = [op |-> "notify_supervisor", who |-> "agent",
                          args |-> call.args,
                          env |-> [store |-> TRUE],
                          value |-> [kind |-> "posted", request_id |-> call.request_id]]
       ELSE /\ webhooks' = webhooks
            /\ calls' = calls \ {call}
            /\ \E hook \in WebhookOutcomes(TRUE) :
                  result' = CreateResult(call.caller, call.args, call.request_id,
                                         TRUE, hook)
    /\ UNCHANGED <<manager, config, help_requests, knowledge, faq_cache, callbacks,
                   resolutions, now>>
    /\ UNCHANGED <<appointments, turn, userdata>>

\* The POST of _notify_supervisor comes back, with a status or an exception; it is
\* logged and create_help_request returns the id.
create_help_request_returns(call) ==
    /\ call.op = "create_help_request"
    /\ call.stage = "posted"
    /\ \E hook \in PostOutcomes :
          /\ webhooks' = PostAttempts(webhooks, hook,
                                       WebhookPayload(call.request_id, call.help_request))
          /\ result' = CreateResult(call.caller, call.args, call.request_id, TRUE, hook)
    /\ calls' = calls \ {call}
    /\ UNCHANGED <<manager, config, help_requests, knowledge, faq_cache, callbacks,
                   resolutions, now>>
    /\ UNCHANGED <<appointments, turn, userdata>>

\* What resolve_help_request hands back: the resolution event (app/help_request.py)
\* or a summary with the response time (app/helper.py), or the exception.
ResolveReturn(request_id, doc, response, response_time, stage, kb) ==
    IF stage # "resolved" THEN [kind |-> stage]
    ELSE IF kb = "kb_error" THEN [kind |-> "kb_error"]
    ELSE IF manager = "help_request"
    THEN [kind |-> "resolved",
          event |-> "help_request_resolved",
          request_id |-> request_id,
          room_name |-> doc.room_name,
          original_question |-> doc[QuestionField],
          answer |-> response.answer]
    ELSE [kind |-> "resolved", request_id |-> request_id,
          status |-> "resolved",
          response_time_seconds |-> response_time]

\* The payload _notify_ai_agent posts.
CallbackPayload(request_id, doc, answer) ==
    IF manager = "help_request"
    THEN [event |-> "help_request_resolved",
          request_id |-> request_id,
          room_name |-> doc.room_name,
          original_question |-> doc.question,
          answer |-> answer]
    ELSE [event |-> "help_request_resolved",
          request_id |-> request_id,
          room_name |-> doc.room_name,
          original_question |-> doc.reason,
          answer |-> answer,
          customer_context |-> doc.customer_context]

\* What a resolve that ends with an exception hands to its awaiting caller.
ResolveRaises(args, help_request, kind, storeOk, kb) ==
    [op |-> "resolve_help_request", who |-> "supervisor",
     args |-> args,
     env |-> [store |-> storeOk, kb |-> kb, callback |-> "not_reached"],
     value |-> ResolveReturn(args.request_id, help_request, args.response, NoNumber,
                             kind, kb)]

\* resolve_help_request up to doc_ref.get() in the pool thread: the document is
\* read and checked.  A missing or empty document, or a read that raises, ends the
\* call with that exception; otherwise the job goes on with the document as it
\* was read, kept with the call in `calls`.
resolve_help_request(request_id, response, add_to_kb) ==
    /\ resolutions
          + Cardinality({call \in calls : call.op = "resolve_help_request"
                                            /\ call.stage \in {"read", "timed"}})
         < MaxResolutions
    /\ \E storeOk \in BOOLEAN :
        LET stage == UpdateDocStage(request_id, storeOk)
            args == [request_id |-> request_id, response |-> response,
                     add_to_kb |-> add_to_kb]
        IN  IF stage = "resolved"
            THEN /\ calls' = calls \cup {[op |-> "resolve_help_request",
                                          number |-> FreshCall,
                                          stage |-> "read",
                                          args |-> args,
                                          help_request |-> help_requests[request_id],
                                          update_data |-> EmptyDoc,
                                          response_time |-> NoNumber,
                                          kb |-> "pending"]}
                 /\ result' = [op |-> "doc_get", who |-> "supervisor",
                               args |-> args,
                               env |-> [store |-> storeOk],
                               value |-> [kind |-> "read"]]
            ELSE /\ calls' = calls
                 /\ result' = ResolveRaises(args, EmptyDoc, stage, storeOk, "not_reached")
    /\ UNCHANGED <<manager, config, help_requests, knowledge, faq_cache, webhooks,
                   callbacks, resolutions, now>>
    /\ UNCHANGED <<appointments, turn, userdata>>

\* update_doc / get_and_update from the answer of doc_ref.get() up to the call of
\* doc_ref.update: the pool thread reads the clock three times (the first read is
\* `now`, the second t2, the third t3) and builds update_data; the response time
\* is taken from the document as it was read.  The job writes created_at as a
\* naive datetime.now(); a store client that hands timestamps back timezone-aware
\* (aware) makes the subtraction raise TypeError, and the call ends with it,
\* nothing written.
UpdateWithReads(call, t2, t3) ==
    /\ call.op = "resolve_help_request"
    /\ call.stage = "read"
    /\ \E aware \in BOOLEAN :
          IF ~aware
          THEN /\ calls' = (calls \ {call})
                              \cup {[call EXCEPT
                                        !.stage = "timed",
                                        !.update_data =
                                            UpdateData(call.help_request,
                                                       call.args.response.answer,
                                                       call.args.response.resolution_notes,
                                                       now, t2, t3),
                                        !.response_time =
                                            <<now - call.help_request.created_at>>]}
               /\ now' = t3
               /\ result' = [op |-> "datetime_now", who |-> "supervisor",
                             args |-> call.args,
                             env |-> [store |-> TRUE, reads |-> <<now, t2, t3>>],
                             value |-> [kind |-> "timed"]]
          ELSE /\ calls' = calls \ {call}
               /\ now' = now
               /\ result' = ResolveRaises(call.args, call.help_request, "type_error",
                                          TRUE, "not_reached")
    /\ UNCHANGED <<manager, config, help_requests, knowledge, faq_cache, webhooks,
                   callbacks, resolutions>>
    /\ UNCHANGED <<appointments, turn, userdata>>

\* doc_ref.update(update_data), a blocking round trip of the pool thread: the
\* fields built from the earlier reads are set on the document as it is stored
\* now.  The call is then suspended until the event loop resumes it; if the
\* update raised, the call ends with that exception.
update_doc(call) ==
    /\ call.op = "resolve_help_request"
    /\ call.stage = "timed"
    /\ \E storeOk \in BOOLEAN :
          IF storeOk
          THEN /\ help_requests' =
                     [help_requests EXCEPT ![call.args.request_id] =
                         DocUpdate(@, call.update_data)]
               /\ resolutions' = resolutions + 1
               /\ calls' = (calls \ {call}) \cup {[call EXCEPT !.stage = "updated"]}
               /\ result' = [op |-> "update_doc", who |-> "supervisor",
                             args |-> call.args,
                             env |-> [store |-> TRUE],
                             value |-> [kind |-> "updated"]]
          ELSE /\ calls' = calls \ {call}
               /\ result' = ResolveRaises(call.args, call.help_request, "store_error",
                                          FALSE, "not_reached")
               /\ UNCHANGED <<help_requests, resolutions>>
    /\ UNCHANGED <<manager, config, knowledge, faq_cache, webhooks, callbacks, now>>
    /\ UNCHANGED <<appointments, turn, userdata>>

\* Whether the knowledge-base step of a suspended resolve suspends it again on an
\* upsert: only app/help_request.py, asked to add, awaits one.
AwaitsUpsert(call) ==
    /\ call.stage = "updated"
    /\ call.kb = "pending"
    /\ KnowledgeOutcomes("resolved", call.args.add_to_kb) \cap {"added", "kb_error"} # {}

\* The knowledge-base step of a resolve of app/help_request.py, up to the await of
\* qdrant.upsert: the point is upserted and the call is suspended once more, or
\* the step raises before anything is stored and the call ends with that
\* exception.
resolve_adds_to_knowledge_base(call) ==
    /\ call.op = "resolve_help_request"
    /\ AwaitsUpsert(call)
    /\ \E kb \in KnowledgeOutcomes("resolved", call.args.add_to_kb) :
          IF kb = "added"
          THEN /\ knowledge' = add_to_knowledge_base(knowledge,
                                                     call.help_request[QuestionField],
                                                     call.args.response.answer,
                                                     call.args.response.kb_category)
               /\ calls' = (calls \ {call}) \cup {[call EXCEPT !.kb = kb]}
               /\ result' = [op |-> "qdrant_upsert", who |-> "supervisor",
                             args |-> call.args,
                             env |-> [kb |-> kb],
                             value |-> [kind |-> "added"]]
          ELSE /\ knowledge' = knowledge
               /\ calls' = calls \ {call}
               /\ result' = ResolveRaises(call.args, call.help_request, "resolved",
                                          TRUE, kb)
    /\ UNCHANGED <<manager, config, help_requests, faq_cache, webhooks, callbacks,
                   resolutions, now>>
    /\ UNCHANGED <<appointments, turn, userdata>>

\* resolve_help_request from its resumption after the update (or after the
\* awaited upsert) up to the await in _notify_ai_agent.  An awaited upsert may
\* come back with an exception although the point is stored (the reply was
\* lost): the call then ends with it.  With no callback URL configured the call
\* returns; otherwise client.post sends the callback and the call is suspended
\* until the POST comes back.
notify_ai_agent(call) ==
    /\ call.op = "resolve_help_request"
    /\ call.stage = "updated"
    /\ ~AwaitsUpsert(call)
    /\ \E kb \in IF call.kb = "pending"
                 THEN KnowledgeOutcomes("resolved", call.args.add_to_kb)
                 ELSE {call.kb, "kb_error"} :
          IF kb = "kb_error"
          THEN /\ callbacks' = callbacks
               /\ calls' = calls \ {call}
               /\ result' = ResolveRaises(call.args, call.help_request, "resolved",
                                          TRUE, kb)
          ELSE IF ~config.ai_callback_url
          THEN /\ callbacks' = callbacks
               /\ calls' = calls \ {call}
               /\ result' = [op |-> "resolve_help_request", who |-> "supervisor",
                             args |-> call.args,
                             env |-> [store |-> TRUE, kb |-> kb,
                                      callback |-> "not_configured"],
                             value |-> ResolveReturn(call.args.request_id,
                                                     call.help_request,
                                                     call.args.response,
                                                     call.response_time, "resolved", kb)]
          ELSE /\ callbacks' = Append(callbacks,
                                      CallbackPayload(call.args.request_id,
                                                      call.help_request,
                                                      call.args.response.answer))
               /\ calls' = (calls \ {call})
                              \cup {[call EXCEPT !.stage = "posted", !.kb = kb]}
               /\ result' = [op |-> "notify_ai_agent", who |-> "supervisor",
                             args |-> call.args,
                             env |-> [store |-> TRUE, kb |-> kb],
                             value |-> [kind |-> "posted"]]
    /\ UNCHANGED <<manager, config, help_requests, knowledge, faq_cache, webhooks,
                   resolutions, now>>
    /\ UNCHANGED <<appointments, turn, userdata>>

\* The POST of _notify_ai_agent comes back, with a status or an exception; it is
\* logged and resolve_help_request returns.
resolve_help_request_returns(call) ==
    /\ call.op = "resolve_help_request"
    /\ call.stage = "posted"
    /\ \E cb \in PostOutcomes :
          /\ callbacks' = PostAttempts(callbacks, cb,
                                        CallbackPayload(call.args.request_id,
                                                        call.help_request,
                                                        call.args.response.answer))
          /\ result' = [op |-> "resolve_help_request", who |-> "supervisor",
                        args |-> call.args,
                        env |-> [store |-> TRUE, kb |-> call.kb, callback |-> cb],
                        value |-> ResolveReturn(call.args.request_id, call.help_request,
                                                call.args.response, call.response_time,
                                                "resolved", call.kb)]
    /\ calls' = calls \ {call}
    /\ UNCHANGED <<manager, config, help_requests, knowledge, faq_cache, webhooks,
                   resolutions, now>>
    /\ UNCHANGED <<appointments, turn, userdata>>

(***************************************************************************)
(* Text.  The lexical tier works on characters (lower-casing, splitting on *)
(* whitespace, substring tests), so the texts the model uses are spelled   *)
(* out as sequences of characters.                                         *)
(***************************************************************************)
KnownTexts ==
    {"Do you accept crypto?",
     "Do you offer gift cards?",
     " Crypto payment ",
     "Crypto payment",
     "crypto payment",
     "gift voucher",
     "What are your hours?",
     "Do you offer parking?",
     "do you accept crypto?",
     "do you offer gift cards?",
     " crypto payment ",
     "what are your hours?",
     "do you offer parking?",
     "Can I pay with crypto?",
     "can i pay with crypto?"}

Chars(s) ==
    CASE s = "Do you accept crypto?" ->
           <<"D", "o", " ", "y", "o", "u", " ", "a", "c", "c", "e", "p", "t", " ", "c", "r", "y", "p", "t", "o", "?">>
      [] s = "Do you offer gift cards?" ->
           <<"D", "o", " ", "y", "o", "u", " ", "o", "f", "f", "e", "r", " ", "g", "i", "f", "t", " ", "c", "a", "r", "d", "s", "?">>
      [] s = " Crypto payment " ->
           <<" ", "C", "r", "y", "p", "t", "o", " ", "p", "a", "y", "m", "e", "n", "t", " ">>
      [] s = "Crypto payment" ->
           <<"C", "r", "y", "p", "t", "o", " ", "p", "a", "y", "m", "e", "n", "t">>
      [] s = "crypto payment" ->
           <<"c", "r", "y", "p", "t", "o", " ", "p", "a", "y", "m", "e", "n", "t">>
      [] s = "gift voucher" ->
           <<"g", "i", "f", "t", " ", "v", "o", "u", "c", "h", "e", "r">>
      [] s = "What are your hours?" ->
           <<"W", "h", "a", "t", " ", "a", "r", "e", " ", "y", "o", "u", "r", " ", "h", "o", "u", "r", "s", "?">>
      [] s = "Do you offer parking?" ->
           <<"D", "o", " ", "y", "o", "u", " ", "o", "f", "f", "e", "r", " ", "p", "a", "r", "k", "i", "n", "g", "?">>
      [] s = "do you accept crypto?" ->
           <<"d", "o", " ", "y", "o", "u", " ", "a", "c", "c", "e", "p", "t", " ", "c", "r", "y", "p", "t", "o", "?">>
      [] s = "do you offer gift cards?" ->
           <<"d", "o", " ", "y", "o", "u", " ", "o", "f", "f", "e", "r", " ", "g", "i", "f", "t", " ", "c", "a", "r", "d", "s", "?">>
      [] s = " crypto payment " ->
           <<" ", "c", "r", "y", "p", "t", "o", " ", "p", "a", "y", "m", "e", "n", "t", " ">>
      [] s = "what are your hours?" ->
           <<"w", "h", "a", "t", " ", "a", "r", "e", " ", "y", "o", "u", "r", " ", "h", "o", "u", "r", "s", "?">>
      [] s = "do you offer parking?" ->
           <<"d", "o", " ", "y", "o", "u", " ", "o", "f", "f", "e", "r", " ", "p", "a", "r", "k", "i", "n", "g", "?">>
      [] s = "Can I pay with crypto?" ->
           <<"C", "a", "n", " ", "I", " ", "p", "a", "y", " ", "w", "i", "t", "h", " ", "c", "r", "y", "p", "t", "o", "?">>
      [] s = "can i pay with crypto?" ->
           <<"c", "a", "n", " ", "i", " ", "p", "a", "y", " ", "w", "i", "t", "h", " ", "c", "r", "y", "p", "t", "o", "?">>

Text(chars) == CHOOSE s \in KnownTexts : Chars(s) = chars

lower_char(ch) ==
    CASE ch = "C" -> "c"
      [] ch = "D" -> "d"
      [] ch = "I" -> "i"
      [] ch = "W" -> "w"
      [] OTHER -> ch

\* str.lower(), tabulated over the texts the model uses.
lower ==
    [s \in KnownTexts |->
        LET chars == Chars(s)
        IN  Text([i \in DOMAIN chars |-> lower_char(chars[i])])]

str_lower(s) == lower[s]

RECURSIVE lstrip(_)
lstrip(chars) ==
    IF chars # <<>> /\ Head(chars) = " " THEN lstrip(Tail(chars)) ELSE chars

RECURSIVE rstrip(_)
rstrip(chars) ==
    IF chars # <<>> /\ chars[Len(chars)] = " "
    THEN rstrip(SubSeq(chars, 1, Len(chars) - 1))
    ELSE chars

\* str.strip()
str_strip(s) == Text(rstrip(lstrip(Chars(s))))

\* str.split(): the maximal runs of non-whitespace characters, in order.
RECURSIVE split(_)
split(chars) ==
    LET rest == lstrip(chars)
        n == IF \E i \in DOMAIN rest : rest[i] = " "
             THEN (CHOOSE i \in DOMAIN rest :
                      rest[i] = " " /\ \A j \in 1 .. (i - 1) : rest[j] # " ") - 1
             ELSE Len(rest)
    IN  IF rest = <<>> THEN <<>>
        ELSE <<SubSeq(rest, 1, n)>> \o split(SubSeq(rest, n + 1, Len(rest)))

\* q_text.split() of a lower-cased text, tabulated over the texts the model uses.
lower_split == [s \in KnownTexts |-> split(Chars(str_lower(s)))]

\* word in text
IsSubstring(word, chars) ==
    \E i \in 1 .. (Len(chars) - Len(word) + 1) :
        SubSeq(chars, i, i + Len(word) - 1) = word

\* The curated FAQ list (app.information.SALON_FAQ).
SALON_FAQ ==
    <<[question |-> "What are your hours?", answer |-> "We are open 9 AM to 5 PM."],
      [question |-> "Do you offer parking?", answer |-> "Yes, parking is free."]>>

\* search_faq._search: the answer of the first cached entry one of whose
\* whitespace-delimited tokens, lower-cased, occurs in the lower-cased query.
FaqMatches(faq, query) ==
    LET question_lower == Chars(str_lower(query))
        words == lower_split[faq.question]
    IN  \E k \in DOMAIN words : IsSubstring(words[k], question_lower)

SearchFaqResult_last_match(cache, query) ==
    LET matching == {i \in DOMAIN cache : FaqMatches(cache[i], query)}
    IN  IF matching # {}
        THEN cache[CHOOSE i \in matching : \A j \in matching : j <= i].answer
        ELSE None

SearchFaqResult(cache, query) ==
    LET matching == {i \in DOMAIN cache : FaqMatches(cache[i], query)}
    IN  IF matching # {}
        THEN cache[CHOOSE i \in matching : \A j \in matching : i <= j].answer
        ELSE None

(***************************************************************************)
(* Semantic tier.  The sentence encoder and the vector index are external; *)
(* the encoder is stubbed by a fixed similarity table (cosine similarity,  *)
(* in percent) over the texts the model uses.                              *)
(***************************************************************************)
KnowledgeQueries == {"crypto payment", "gift voucher"}

\* The stub encoder ignores case.
Similarity(a, b) ==
    LET x == str_lower(a)
        y == str_lower(b)
    IN  IF x = y THEN 100
        ELSE IF {x, y} = {"crypto payment", "do you accept crypto?"} THEN 90
        ELSE IF {x, y} = {"crypto payment", "can i pay with crypto?"} THEN 80
        ELSE IF {x, y} = {"gift voucher", "do you offer gift cards?"} THEN 70
        ELSE 10

\* threshold: float = 0.8, in percent.
SimilarityThreshold == 80

\* The score of every point against the query.
Scores(points, query) == [i \in DOMAIN points |-> Similarity(query, points[i].question)]

SearchKnowledgeResults_any_hit_above_threshold(points, query) ==
    LET scores == Scores(points, query)
        above == {j \in DOMAIN points : scores[j] >= SimilarityThreshold}
    IN  IF above # {} THEN {points[i].answer : i \in above} ELSE {None}

\* What search_knowledge can return over the given points: None when the index is
\* empty or its best hit scores below the threshold, else the answer of the best
\* hit (the index orders hits of equal score as it likes).
SearchKnowledgeResults(points, query) ==
    LET scores == Scores(points, query)
        best == CHOOSE m \in Range(scores) : \A i \in DOMAIN points : scores[i] <= m
    IN  IF points = <<>> THEN {None}
        ELSE IF best < SimilarityThreshold THEN {None}
        ELSE {points[i].answer : i \in {j \in DOMAIN points : scores[j] = best}}

(***************************************************************************)
(* request_help.  Both agents instantiate the HelpRequestManager of        *)
(* helper.py.  app/agent.py goes through the knowledge tiers first;        *)
(* app/livekit_agent/agent.py creates the help request at once.            *)
(***************************************************************************)
QuestionInputs == {"Do you accept crypto?", "Do you offer gift cards?", " Crypto payment "}

\* self.job_context.room.name, or None when the job has no room.
RoomName(c) == IF c = "convA" THEN "room-A" ELSE None

\* Calling an async def without await only builds a coroutine object.
Coroutine(function, query) == [kind |-> "coroutine", of |-> function, query |-> query]

\* bool(value) of what a tier handed back: a coroutine object is truthy, as is a
\* non-empty answer; None is not.
Truthy(value) == value.kind \in {"coroutine", "answer"}

\* Assistant.request_help of app/agent.py.  search_faq and search_knowledge are
\* async and are called without await.  faq_results is a coroutine object, so
\* faq_results.get raises AttributeError, which the inner except logs: the FAQ tier
\* never answers.  kb_answer is a coroutine object too, hence truthy, and is what
\* the tool returns; neither search ever runs.
request_help(c, question) ==
    LET stripped == str_strip(question)
        question_lower == str_lower(stripped)
        faq_results == Coroutine("search_faq", question_lower)
        kb_answer == Coroutine("search_knowledge", question_lower)
        room_name == RoomName(c)
    IN  /\ manager = "helper"
        /\ Truthy(faq_results)
        /\ IF Truthy(kb_answer)
           THEN /\ result' = [op |-> "request_help", who |-> c,
                              args |-> [question |-> question],
                              env |-> [agent |-> "agent",
                                       calls |-> <<"search_faq", "search_knowledge">>,
                                       store |-> "not_reached",
                                       webhook |-> "not_reached"],
                              value |-> kb_answer]
                /\ UNCHANGED <<manager, config, help_requests, knowledge, faq_cache,
                               webhooks, callbacks, resolutions, calls, now>>
                /\ UNCHANGED <<appointments, turn, userdata>>
           ELSE \E d \in ClockReadGaps :
                   /\ now + d <= MaxDrift
                   /\ CreateHelpRequestCall(
                          [question |-> stripped, room_name |-> room_name],
                          <<[timestamp |-> now, room_name |-> room_name,
                             question |-> stripped]>>,
                          [tool |-> "request_help", who |-> c, agent |-> "agent",
                           question |-> question,
                           calls |-> <<"search_faq", "search_knowledge">>,
                           hold_on |-> [kind |-> "hold_on"]],
                          now + d)

\* Assistant.request_help of app/livekit_agent/agent.py, up to the first await of
\* the create_help_request it awaits; write_doc, notify_supervisor and
\* create_help_request_returns carry it on.  The clock is read twice: for the
\* timestamp of customer_context, and d ticks later in create_help_request for
\* created_at.
livekit_request_help(c, reason) ==
    /\ manager = "helper"
    /\ \E d \in ClockReadGaps :
          /\ now + d <= MaxDrift
          /\ CreateHelpRequestCall(
                [question |-> reason, room_name |-> RoomName(c)],
                <<[timestamp |-> now, room_name |-> RoomName(c)]>>,
                [tool |-> "request_help", who |-> c, agent |-> "livekit_agent",
                 question |-> reason,
                 calls |-> <<>>,
                 hold_on |-> [kind |-> "hold_on", question |-> reason]],
                now + d)

\* fetch_pending: where status == "pending", order_by created_at DESCENDING (Firestore
\* breaks ties by document id in the same direction).  Returns the ids of the views.
PendingIds ==
    {i \in DOMAIN help_requests :
        /\ "status" \in DOMAIN help_requests[i]
        /\ help_requests[i].status = PENDING}

RECURSIVE NewestFirst(_)
NewestFirst(ids) ==
    IF ids = {} THEN <<>>
    ELSE LET top == CHOOSE i \in ids :
                      \A j \in ids :
                         \/ help_requests[j].created_at < help_requests[i].created_at
                         \/ /\ help_requests[j].created_at = help_requests[i].created_at
                            /\ j <= i
         IN  <<top>> \o NewestFirst(ids \ {top})

\* get_pending_requests up to the end of fetch_pending in the pool thread: the
\* query is streamed over the collection as it is now and the call stays
\* suspended with the views until the event loop resumes it.  If the store
\* raises while the query is streamed, the exception reaches the caller of
\* get_pending_requests: no views, no call left suspended.
get_pending_requests ==
    /\ Cardinality({call \in calls : call.op = "get_pending_requests"}) < MaxFetches
    /\ \E storeOk \in BOOLEAN :
          IF storeOk
          THEN /\ calls' = calls \cup {[op |-> "get_pending_requests",
                                        number |-> FreshCall,
                                        stage |-> "fetched",
                                        ids |-> NewestFirst(PendingIds)]}
               /\ result' = [op |-> "fetch_pending", who |-> "supervisor", args |-> <<>>,
                             env |-> [store |-> TRUE],
                             value |-> [kind |-> "views", ids |-> NewestFirst(PendingIds)]]
          ELSE /\ calls' = calls
               /\ result' = [op |-> "get_pending_requests", who |-> "supervisor",
                             args |-> <<>>,
                             env |-> [store |-> FALSE],
                             value |-> [kind |-> "store_error"]]
    /\ UNCHANGED <<manager, config, help_requests, knowledge, faq_cache, webhooks,
                   callbacks, resolutions, now>>
    /\ UNCHANGED <<appointments, turn, userdata>>

\* get_pending_requests resumes and returns the views fetch_pending built.
get_pending_requests_returns(call) ==
    /\ call.op = "get_pending_requests"
    /\ calls' = calls \ {call}
    /\ result' = [op |-> "get_pending_requests", who |-> "supervisor", args |-> <<>>,
                  env |-> [store |-> TRUE],
                  value |-> [kind |-> "views", ids |-> call.ids]]
    /\ UNCHANGED <<manager, config, help_requests, knowledge, faq_cache, webhooks,
                   callbacks, resolutions, now>>
    /\ UNCHANGED <<appointments, turn, userdata>>

(***************************************************************************)
(* Initial states.  The appointment store is empty or already holds one    *)
(* booking made earlier for another customer.                              *)
(***************************************************************************)
EarlierBooking ==
    NewBooking(WalkIn, "Haircut", "March 3, 2025", "2:00 PM", "5550001111", 40, 0)

NoResult == [op |-> "none", who |-> "none", args |-> <<>>, env |-> <<>>, value |-> [kind |-> "none"]]
InitSessions ==
    /\ turn = [c \in Convs |-> NoTurn]
    /\ userdata = [c \in Convs |-> SalonUserData]

InitHelpIdle ==
    /\ manager = "help_request"
    /\ config = [webhook_url |-> FALSE, ai_callback_url |-> FALSE]
    /\ help_requests = <<>>
    /\ knowledge = <<>>
    /\ faq_cache = <<>>
    /\ webhooks = <<>>
    /\ callbacks = <<>>
    /\ resolutions = 0
    /\ calls = {}

InitBooking ==
    /\ appointments \in {EmptyBag, SetToBag({EarlierBooking})}
    /\ InitSessions
    /\ InitHelpIdle
    /\ now = 0
    /\ result = NoResult

InitHelp ==
    /\ manager \in Managers
    /\ config \in [webhook_url : BOOLEAN, ai_callback_url : BOOLEAN]
    /\ help_requests \in {<<>>, [i \in {EmptyDocId} |-> EmptyDoc]}
    /\ knowledge = <<>>
    /\ faq_cache = <<>>
    /\ webhooks = <<>>
    /\ callbacks = <<>>
    /\ resolutions = 0
    /\ calls = {}
    /\ appointments = EmptyBag
    /\ InitSessions
    /\ now = 0
    /\ result = NoResult

NextHelp ==
    \/ \E input \in HelpInputs : create_help_request(input)
    \/ \E call \in calls : write_doc(call)
    \/ \E call \in calls : notify_supervisor(call)
    \/ \E call \in calls : create_help_request_returns(call)
    \/ \E request_id \in RequestIds, response \in SupervisorResponses, add_to_kb \in BOOLEAN :
          resolve_help_request(request_id, response, add_to_kb)
    \/ \E call \in calls : UpdateWithReads(call, now, now)
    \/ \E call \in calls : update_doc(call)
    \/ \E call \in calls : resolve_adds_to_knowledge_base(call)
    \/ \E call \in calls : notify_ai_agent(call)
    \/ \E call \in calls : resolve_help_request_returns(call)

SpecHelp == InitHelp /\ [][NextHelp]_vars

\* The supervisor's side of the queue: requests are created, the pending ones
\* fetched, and resolved without a knowledge item being asked for and with no
\* callback URL configured.  The
\* collection is empty or holds a pending request of an earlier run, created at
\* the tick the clock shows or one tick before it.
InitPending ==
    /\ manager \in Managers
    /\ config \in [webhook_url : BOOLEAN, ai_callback_url : {FALSE}]
    /\ help_requests
          \in {<<>>,
               [i \in {EarlierRequestId} |->
                   NewHelpRequest("Do you offer parking?", "room-B", <<>>, 0)]}
    /\ now \in (IF help_requests = <<>> THEN {0} ELSE {0, 1})
    /\ knowledge = <<>>
    /\ faq_cache = <<>>
    /\ webhooks = <<>>
    /\ callbacks = <<>>
    /\ resolutions = 0
    /\ calls = {}
    /\ appointments = EmptyBag
    /\ InitSessions
    /\ result = NoResult

NextPending ==
    \/ \E input \in {x \in HelpInputs : x.room_name # None} : create_help_request(input)
    \/ \E call \in calls : write_doc(call)
    \/ \E call \in calls : notify_supervisor(call)
    \/ \E call \in calls : create_help_request_returns(call)
    \/ get_pending_requests
    \/ \E call \in calls : get_pending_requests_returns(call)
    \/ \E request_id \in RequestIds :
       \E response \in {r \in SupervisorResponses : r.resolution_notes = None} :
          resolve_help_request(request_id, response, FALSE)
    \/ \E call \in calls : UpdateWithReads(call, now, now)
    \/ \E call \in calls : update_doc(call)
    \/ \E call \in calls : notify_ai_agent(call)

SpecPending == InitPending /\ [][NextPending]_vars

\* _sync_faqs_to_qdrant: one point per cached FAQ entry.
SyncedPoints(cache) ==
    [i \in DOMAIN cache |->
        [question |-> cache[i].question, answer |-> cache[i].answer,
         category |-> "faq", source |-> "local_file"]]

\* An item learned from an earlier resolution.
LearnedItem ==
    [question |-> "Do you accept crypto?", answer |-> "Yes, via X", category |-> "general"]

\* An agent process.  KnowledgeManager.initialize() has been awaited before the
\* first tool call or it has not; the index may hold an item learned earlier.
InitAgent ==
    /\ manager = "helper"
    /\ config \in [webhook_url : BOOLEAN, ai_callback_url : BOOLEAN]
    /\ help_requests = <<>>
    /\ \E initialized \in BOOLEAN, learned \in BOOLEAN :
          /\ faq_cache = IF initialized THEN SALON_FAQ ELSE <<>>
          /\ knowledge = (IF initialized THEN SyncedPoints(SALON_FAQ) ELSE <<>>)
                            \o (IF learned THEN <<LearnedItem>> ELSE <<>>)
    /\ webhooks = <<>>
    /\ callbacks = <<>>
    /\ resolutions = 0
    /\ calls = {}
    /\ appointments = EmptyBag
    /\ InitSessions
    /\ now = 0
    /\ result = NoResult

NextAgent ==
    \/ \E c \in Convs, question \in QuestionInputs : request_help(c, question)
    \/ \E c \in Convs, reason \in QuestionInputs : livekit_request_help(c, reason)
    \/ \E call \in calls : write_doc(call)
    \/ \E call \in calls : notify_supervisor(call)
    \/ \E call \in calls : create_help_request_returns(call)

SpecAgent == InitAgent /\ [][NextAgent]_vars

NextBooking ==
    \/ \E c \in Convs, date \in Dates, time \in CheckTimes : check_availability(c, date, time)
    \/ \E c \in Convs : check_availability_query(c)
    \/ \E c \in Convs, service \in ServiceInputs, date \in Dates, time \in BookTimes :
          book_appointment(c, service, date, time)
    \/ \E c \in Convs : create_booking_runs(c)
    \/ \E c \in Convs : book_appointment_returns(c)

SpecBooking == InitBooking /\ [][NextBooking]_vars

\* A store left by earlier bookings on March 3, 2025: occupancy[i] bookings in
\* slot all_slots[i].
SlotBooking(i) ==
    NewBooking(WalkIn, "Haircut", "March 3, 2025", all_slots[i], "5550001111", 40, 0)

OccupancyBag(occupancy) ==
    [d \in {SlotBooking(i) : i \in {j \in DOMAIN all_slots : occupancy[j] > 0}} |->
        occupancy[CHOOSE i \in DOMAIN all_slots : SlotBooking(i) = d]]

\* Every slot of March 3, 2025 holds one or two bookings, or the day is empty.
InitAvailability ==
    /\ appointments \in {OccupancyBag(occupancy) :
                            occupancy \in [DOMAIN all_slots -> 1 .. MAX_BOOKINGS_PER_SLOT]}
                         \cup {EmptyBag}
    /\ InitSessions
    /\ InitHelpIdle
    /\ now = 0
    /\ result = NoResult

\* One conversation asks about the day while the other books its first and its
\* last slot.
NextAvailability ==
    \/ \E time \in CheckTimes : check_availability("convA", "March 3, 2025", time)
    \/ check_availability_query("convA")
    \/ \E time \in {"9:00 AM", "4:00 PM"} :
          book_appointment("convB", "Haircut", "March 3, 2025", time)
    \/ create_booking_runs("convB")
    \/ book_appointment_returns("convB")

SpecAvailability == InitAvailability /\ [][NextAvailability]_vars

NextLivekit ==
    \/ \E c \in Convs, date \in Dates, time \in CheckTimes :
          livekit_check_availability(c, date, time)
    \/ \E c \in Convs : livekit_check_availability_returns(c)
    \/ \E c \in Convs, service \in ServiceInputs, date \in Dates, time \in BookTimes :
          livekit_book_appointment(c, service, date, time)
    \/ \E c \in Convs : create_booking_runs(c)
    \/ \E c \in Convs : book_appointment_returns(c)

SpecLivekit == InitBooking /\ [][NextLivekit]_vars

\* Both conversations ask for the same date.
NextConversations ==
    \/ \E c \in Convs, time \in BookTimes : ConversationChecks(c, "March 3, 2025", time)
    \/ \E c \in Convs : ConversationQueries(c)
    \/ \E c \in Convs, service \in ServiceInputs, time \in BookTimes :
          ConversationBooks(c, service, "March 3, 2025", time)
    \/ \E c \in Convs : create_booking_runs(c)
    \/ \E c \in Convs : book_appointment_returns(c)

SpecConversations == InitBooking /\ [][NextConversations]_vars

(***************************************************************************)
(* Claims about slot capacity and confirmation.                            *)
(***************************************************************************)




(***************************************************************************)
(* A KnowledgeManager on its own: initialize(), the two searches and       *)
(* add_to_knowledge_base, each awaited by its caller and suspended in      *)
(* `calls` wherever it awaits between two uses of the cache or the index.  *)
(***************************************************************************)
IsLocalFile(point) == "source" \in DOMAIN point /\ point.source = "local_file"

LocalFileItems(points) == {i \in DOMAIN points : IsLocalFile(points[i])}

LearnedItems(points) == {i \in DOMAIN points : ~IsLocalFile(points[i])}

\* qdrant.upsert of _sync_faqs_to_qdrant: every prepared point carries a fresh
\* uuid4 id, so the upsert adds them to whatever the collection holds.
SyncFaqs(points, prepared) == points \o prepared

\* KnowledgeManager.initialize up to its first await: the curated list is copied
\* into the cache.  _init_qdrant_collection, awaited next, swallows every
\* exception and leaves the points of the collection alone.
initialize ==
    /\ Cardinality(calls) < MaxCalls
    /\ Cardinality(LocalFileItems(knowledge))
          + Len(SALON_FAQ) * Cardinality({call \in calls :
                                             /\ call.op = "initialize"
                                             /\ call.stage \in {"cached", "prepared"}})
          < MaxSyncs * Len(SALON_FAQ)
    /\ faq_cache' = SALON_FAQ
    /\ calls' = calls \cup {[op |-> "initialize", number |-> FreshCall,
                             stage |-> "cached", args |-> <<>>, points |-> <<>>]}
    /\ result' = [op |-> "faq_copy", who |-> "caller", args |-> <<>>,
                  env |-> <<>>,
                  value |-> [kind |-> "suspended"]]
    /\ UNCHANGED <<manager, config, help_requests, knowledge, webhooks, callbacks,
                   resolutions, now>>
    /\ UNCHANGED <<appointments, turn, userdata>>

\* _prepare_points in the pool thread: one point per entry the cache holds now.
prepare_points(call) ==
    /\ call.op = "initialize"
    /\ call.stage = "cached"
    /\ calls' = (calls \ {call})
                   \cup {[call EXCEPT !.stage = "prepared",
                                      !.points = SyncedPoints(faq_cache)]}
    /\ result' = [op |-> "prepare_points", who |-> "caller", args |-> <<>>,
                  env |-> <<>>,
                  value |-> [kind |-> "prepared"]]
    /\ UNCHANGED <<manager, config, help_requests, knowledge, faq_cache, webhooks,
                   callbacks, resolutions, now>>
    /\ UNCHANGED <<appointments, turn, userdata>>

\* _sync_faqs_to_qdrant from its resumption to the await of qdrant.upsert: with no
\* points initialize returns; otherwise the points are upserted and the call is
\* suspended again, or the upsert raises before anything is stored and initialize
\* ends with that exception.
sync_faqs_to_qdrant(call) ==
    /\ call.op = "initialize"
    /\ call.stage = "prepared"
    /\ IF call.points = <<>>
       THEN /\ knowledge' = knowledge
            /\ calls' = calls \ {call}
            /\ result' = [op |-> "initialize", who |-> "caller", args |-> <<>>,
                          env |-> [index |-> TRUE],
                          value |-> [kind |-> "none"]]
       ELSE \E applied \in BOOLEAN :
               IF applied
               THEN /\ knowledge' = SyncFaqs(knowledge, call.points)
                    /\ calls' = (calls \ {call}) \cup {[call EXCEPT !.stage = "upserted"]}
                    /\ result' = [op |-> "sync_faqs_to_qdrant", who |-> "caller",
                                  args |-> <<>>,
                                  env |-> [index |-> TRUE],
                                  value |-> [kind |-> "upserted"]]
               ELSE /\ knowledge' = knowledge
                    /\ calls' = calls \ {call}
                    /\ result' = [op |-> "initialize", who |-> "caller", args |-> <<>>,
                                  env |-> [index |-> FALSE],
                                  value |-> [kind |-> "kb_error"]]
    /\ UNCHANGED <<manager, config, help_requests, faq_cache, webhooks, callbacks,
                   resolutions, now>>
    /\ UNCHANGED <<appointments, turn, userdata>>

\* The awaited upsert comes back and initialize returns None, or it comes back
\* with an exception although the points are stored (indexOk = FALSE) and
\* initialize ends with it.
initialize_returns(call) ==
    /\ call.op = "initialize"
    /\ call.stage = "upserted"
    /\ \E indexOk \in BOOLEAN :
          result' = [op |-> "initialize", who |-> "caller", args |-> <<>>,
                     env |-> [index |-> indexOk],
                     value |-> IF indexOk THEN [kind |-> "none"] ELSE [kind |-> "kb_error"]]
    /\ calls' = calls \ {call}
    /\ UNCHANGED <<manager, config, help_requests, knowledge, faq_cache, webhooks,
                   callbacks, resolutions, now>>
    /\ UNCHANGED <<appointments, turn, userdata>>

KnowledgeInputs ==
    {LearnedItem,
     [question |-> "Can I pay with crypto?", answer |-> "Ask at the desk",
      category |-> "payments"]}

\* KnowledgeManager.add_to_knowledge_base up to its first await: the encoding of
\* the question is handed to the executor and the call is suspended.
AddToKnowledgeBase(item) ==
    /\ Cardinality(calls) < MaxCalls
    /\ Cardinality(LearnedItems(knowledge))
          + Cardinality({call \in calls : /\ call.op = "add_to_knowledge_base"
                                          /\ call.stage = "encoding"}) < MaxLearned
    /\ calls' = calls \cup {[op |-> "add_to_knowledge_base", number |-> FreshCall,
                             stage |-> "encoding", args |-> item]}
    /\ result' = [op |-> "encode", who |-> "caller", args |-> item,
                  env |-> <<>>,
                  value |-> [kind |-> "suspended"]]
    /\ UNCHANGED <<manager, config, help_requests, knowledge, faq_cache, webhooks,
                   callbacks, resolutions, now>>
    /\ UNCHANGED <<appointments, turn, userdata>>

\* add_to_knowledge_base from the encoded point to the await of qdrant.upsert: the
\* point is upserted and the call is suspended again, or the upsert raises before
\* anything is stored and the call ends with that exception.
qdrant_upsert(call) ==
    /\ call.op = "add_to_knowledge_base"
    /\ call.stage = "encoding"
    /\ \E applied \in BOOLEAN :
          IF applied
          THEN /\ knowledge' = add_to_knowledge_base(knowledge, call.args.question,
                                                     call.args.answer,
                                                     call.args.category)
               /\ calls' = (calls \ {call}) \cup {[call EXCEPT !.stage = "upserted"]}
               /\ result' = [op |-> "qdrant_upsert", who |-> "caller",
                             args |-> call.args,
                             env |-> [index |-> TRUE],
                             value |-> [kind |-> "added"]]
          ELSE /\ knowledge' = knowledge
               /\ calls' = calls \ {call}
               /\ result' = [op |-> "add_to_knowledge_base", who |-> "caller",
                             args |-> call.args,
                             env |-> [index |-> FALSE],
                             value |-> [kind |-> "kb_error"]]
    /\ UNCHANGED <<manager, config, help_requests, faq_cache, webhooks, callbacks,
                   resolutions, now>>
    /\ UNCHANGED <<appointments, turn, userdata>>

\* The awaited upsert comes back and add_to_knowledge_base returns None, or it
\* comes back with an exception although the point is stored (indexOk = FALSE).
add_to_knowledge_base_returns(call) ==
    /\ call.op = "add_to_knowledge_base"
    /\ call.stage = "upserted"
    /\ \E indexOk \in BOOLEAN :
          result' = [op |-> "add_to_knowledge_base", who |-> "caller",
                     args |-> call.args,
                     env |-> [index |-> indexOk],
                     value |-> IF indexOk THEN [kind |-> "none"] ELSE [kind |-> "kb_error"]]
    /\ calls' = calls \ {call}
    /\ UNCHANGED <<manager, config, help_requests, knowledge, faq_cache, webhooks,
                   callbacks, resolutions, now>>
    /\ UNCHANGED <<appointments, turn, userdata>>

SearchQueries == {"What are your hours?", "crypto payment"}

\* KnowledgeManager.search_faq up to the end of _search in the pool thread: the
\* cache is scanned as it is now, and the call stays suspended with the answer
\* until the event loop resumes it.
search_faq(query) ==
    /\ Cardinality(calls) < MaxCalls
    /\ \E answer \in {SearchFaqResult(faq_cache, query)} :
          /\ calls' = calls \cup {[op |-> "search_faq", number |-> FreshCall,
                                   stage |-> "searched",
                                   args |-> [query |-> query],
                                   answer |-> answer]}
          /\ result' = [op |-> "faq_search", who |-> "caller",
                        args |-> [query |-> query],
                        env |-> <<>>,
                        value |-> [kind |-> "answer", answer |-> answer]]
    /\ UNCHANGED <<manager, config, help_requests, knowledge, faq_cache, webhooks,
                   callbacks, resolutions, now>>
    /\ UNCHANGED <<appointments, turn, userdata>>

\* search_faq resumes and returns what _search found.
search_faq_returns(call) ==
    /\ call.op = "search_faq"
    /\ result' = [op |-> "search_faq", who |-> "caller",
                  args |-> call.args,
                  env |-> <<>>,
                  value |-> [kind |-> "answer", answer |-> call.answer]]
    /\ calls' = calls \ {call}
    /\ UNCHANGED <<manager, config, help_requests, knowledge, faq_cache, webhooks,
                   callbacks, resolutions, now>>
    /\ UNCHANGED <<appointments, turn, userdata>>

\* KnowledgeManager.search_knowledge up to its first await: the encoding of the
\* query is handed to the executor and the call is suspended.
search_knowledge(query) ==
    /\ Cardinality(calls) < MaxCalls
    /\ calls' = calls \cup {[op |-> "search_knowledge", number |-> FreshCall,
                             stage |-> "encoding",
                             args |-> [query |-> query],
                             answer |-> None]}
    /\ result' = [op |-> "encode", who |-> "caller",
                  args |-> [query |-> query],
                  env |-> <<>>,
                  value |-> [kind |-> "suspended"]]
    /\ UNCHANGED <<manager, config, help_requests, knowledge, faq_cache, webhooks,
                   callbacks, resolutions, now>>
    /\ UNCHANGED <<appointments, turn, userdata>>

\* search_knowledge from the encoded query to the await of qdrant.search: the
\* index answers over the points it holds now and the call is suspended with the
\* hits, or the search raises (indexOk = FALSE) and the call ends with that
\* exception.
qdrant_search(call) ==
    /\ call.op = "search_knowledge"
    /\ call.stage = "encoding"
    /\ \E indexOk \in BOOLEAN :
       \E answer \in SearchKnowledgeResults(knowledge, call.args.query) :
          IF indexOk
          THEN /\ calls' = (calls \ {call})
                              \cup {[call EXCEPT !.stage = "searched",
                                                 !.answer = answer]}
               /\ result' = [op |-> "qdrant_search", who |-> "caller",
                             args |-> call.args,
                             env |-> [index |-> indexOk],
                             value |-> [kind |-> "answer", answer |-> answer]]
          ELSE /\ calls' = calls \ {call}
               /\ result' = [op |-> "search_knowledge", who |-> "caller",
                             args |-> call.args,
                             env |-> [index |-> indexOk],
                             value |-> [kind |-> "kb_error"]]
    /\ UNCHANGED <<manager, config, help_requests, knowledge, faq_cache, webhooks,
                   callbacks, resolutions, now>>
    /\ UNCHANGED <<appointments, turn, userdata>>

\* search_knowledge resumes and returns the answer of the best hit, or None.
search_knowledge_returns(call) ==
    /\ call.op = "search_knowledge"
    /\ call.stage = "searched"
    /\ result' = [op |-> "search_knowledge", who |-> "caller",
                  args |-> call.args,
                  env |-> [index |-> TRUE],
                  value |-> [kind |-> "answer", answer |-> call.answer]]
    /\ calls' = calls \ {call}
    /\ UNCHANGED <<manager, config, help_requests, knowledge, faq_cache, webhooks,
                   callbacks, resolutions, now>>
    /\ UNCHANGED <<appointments, turn, userdata>>

InitKnowledge ==
    /\ InitBooking
    /\ appointments = EmptyBag

NextKnowledge ==
    \/ initialize
    \/ \E call \in calls : prepare_points(call)
    \/ \E call \in calls : sync_faqs_to_qdrant(call)
    \/ \E call \in calls : initialize_returns(call)
    \/ \E item \in KnowledgeInputs : AddToKnowledgeBase(item)
    \/ \E call \in calls : qdrant_upsert(call)
    \/ \E call \in calls : add_to_knowledge_base_returns(call)
    \/ \E query \in SearchQueries : search_faq(query)
    \/ \E call \in calls : search_faq_returns(call)
    \/ \E query \in SearchQueries : search_knowledge(query)
    \/ \E call \in calls : qdrant_search(call)
    \/ \E call \in calls : search_knowledge_returns(call)

SpecKnowledge == InitKnowledge /\ [][NextKnowledge]_vars

(***************************************************************************)
(* SalonUserData methods on the session of conversation c.                 *)
(***************************************************************************)
QueryInputs == {"do you do nails", "when are you open"}

QueryHistoryLimit == 10

\* previous_queries.append({...}); if len(previous_queries) > 10: pop() -- the
\* newest entry is the one dropped.
AddQuery_evicting_newest(queries, query, timestamp) ==
    LET appended == Append(queries, [query |-> query, timestamp |-> timestamp])
    IN  IF Len(appended) > QueryHistoryLimit
        THEN SubSeq(appended, 1, Len(appended) - 1)
        ELSE appended

\* previous_queries.append({...}); if len(previous_queries) > 10: pop(0)
AddQuery(queries, query, timestamp) ==
    LET appended == Append(queries, [query |-> query, timestamp |-> timestamp])
    IN  IF Len(appended) > QueryHistoryLimit
        THEN Tail(appended)
        ELSE appended

add_query(c, query) ==
    /\ userdata' = [userdata EXCEPT ![c].previous_queries = AddQuery(@, query, now)]
    /\ result' = [op |-> "add_query", who |-> c, args |-> [query |-> query],
                  env |-> [entries |-> Len(userdata[c].previous_queries)],
                  value |-> [kind |-> "none"]]
    /\ UNCHANGED <<appointments, turn, now>>
    /\ UNCHANGED helpVars

NextQueries == \E query \in QueryInputs : add_query("convA", query)

SpecQueries == InitBooking /\ [][NextQueries]_vars

\* BookingContext.is_complete() asked of the session's current booking.
IsCompleteCall(c) ==
    /\ result' = [op |-> "is_complete", who |-> c, args |-> <<>>, env |-> <<>>,
                  value |-> [kind |-> "bool",
                             complete |-> is_complete(userdata[c].current_booking)]]
    /\ UNCHANGED <<appointments, turn, userdata, now>>
    /\ UNCHANGED helpVars

\* SalonUserData.reset_booking()
ResetBooking(session) ==
    [session EXCEPT !.current_booking = BookingContext,
                    !.waiting_for_confirmation = FALSE,
                    !.validation_errors = <<>>,
                    !.retry_count = 0]

reset_booking(c) ==
    /\ userdata' = [userdata EXCEPT ![c] = ResetBooking(@)]
    /\ result' = [op |-> "reset_booking", who |-> c, args |-> <<>>, env |-> <<>>,
                  value |-> [kind |-> "none"]]
    /\ UNCHANGED <<appointments, turn, now>>
    /\ UNCHANGED helpVars

\* Sessions a caller of the dataclass constructors can hold: each required field
\* missing, empty or filled in, with or without a price, flags and counters set
\* or not.
FieldInputs(f) ==
    {None, "",
     CASE f = "customer_name" -> "Jane Doe"
       [] f = "phone_number" -> "5551234567"
       [] f = "service" -> "Haircut"
       [] f = "appointment_date" -> "March 3, 2025"
       [] f = "appointment_time" -> "2:00 PM"}

BookingInputs ==
    [customer_name : FieldInputs("customer_name"),
     phone_number : FieldInputs("phone_number"),
     service : FieldInputs("service"),
     appointment_date : FieldInputs("appointment_date"),
     appointment_time : FieldInputs("appointment_time"),
     price : {NoNumber, <<40>>},
     confirmed : BOOLEAN]

SessionInputs ==
    [current_booking : BookingInputs,
     conversation_state : {"greeting"},
     previous_queries : {<<>>, <<[query |-> "do you do nails", timestamp |-> 0]>>},
     availability_checks : {<<>>},
     waiting_for_confirmation : BOOLEAN,
     validation_errors : {<<>>, <<"phone_number">>},
     retry_count : {0, 1}]

InitSession ==
    /\ appointments = EmptyBag
    /\ turn = [c \in Convs |-> NoTurn]
    /\ \E session \in SessionInputs :
          userdata = [c \in Convs |-> IF c = "convA" THEN session ELSE SalonUserData]
    /\ InitHelpIdle
    /\ now = 0
    /\ result = NoResult

NextSession == IsCompleteCall("convA") \/ reset_booking("convA")

SpecSession == InitSession /\ [][NextSession]_vars


(***************************************************************************)
(* Wall-clock time, in milliseconds since the first observation.           *)
(* create_booking reads datetime.now(timezone.utc) once per call; between  *)
(* two calls the clock may have moved by any number of milliseconds.       *)
(***************************************************************************)
ClockSteps == {ConfirmationModulus \div 2, ConfirmationModulus}

AdvanceClock(d) ==
    /\ now + d <= MaxClock
    /\ now' = now + d
    /\ result' = [op |-> "clock", who |-> "none", args |-> [d |-> d],
                  env |-> <<>>, value |-> [kind |-> "none"]]
    /\ UNCHANGED <<appointments, turn, userdata>>
    /\ UNCHANGED helpVars

NextClock ==
    \/ \E d \in ClockSteps : AdvanceClock(d)
    \/ \E date \in Dates, time \in BookTimes :
          book_appointment("convA", "Haircut", date, time)
    \/ create_booking_runs("convA")
    \/ book_appointment_returns("convA")

SpecClock == InitBooking /\ [][NextClock]_vars


(***************************************************************************)
(* Help requests under a moving clock: time passes between a create and    *)
(* its resolve, between the clock reads of one resolve, and between those  *)
(* reads and the update that stores them.  No webhook or callback URL is   *)
(* configured, so the notifiers return without a POST, and no knowledge    *)
(* item is asked for.  Between two clock steps the reads of the resolves   *)
(* move the clock by at most MaxDrift ticks in all.                        *)
(***************************************************************************)
InitHelpClock ==
    /\ InitHelp
    /\ config = [webhook_url |-> FALSE, ai_callback_url |-> FALSE]
    /\ help_requests = <<>>

NextHelpClock ==
    \/ \E input \in {x \in HelpInputs : x.room_name # None} : create_help_request(input)
    \/ \E d \in ClockSteps : AdvanceClock(d)
    \/ \E request_id \in RequestIds :
       \E response \in {r \in SupervisorResponses : r.resolution_notes = None} :
          resolve_help_request(request_id, response, FALSE)
    \/ \E call \in calls :
       \E d1, d2 \in ClockReadGaps :
          /\ now + d1 + d2 <= MaxClock
          /\ (now + d1 + d2) % (ConfirmationModulus \div 2) <= MaxDrift
          /\ UpdateWithReads(call, now + d1, now + d1 + d2)
    \/ \E call \in calls : update_doc(call)
    \/ \E call \in calls : write_doc(call)
    \/ \E call \in calls : notify_supervisor(call)
    \/ \E call \in calls : notify_ai_agent(call)

SpecHelpClock == InitHelpClock /\ [][NextHelpClock]_vars

\* C1: after any sequence of check_availability and book_appointment calls run one
\* at a time, every (appointment_date, appointment_time) pair holds at most 2
\* appointment records.
C1_AtMostTwoPerSlot ==
    \A d \in BagToSet(appointments) :
        SlotCount(d.appointment_date, d.appointment_time) <= MAX_BOOKINGS_PER_SLOT

\* C2: book_appointment persists a record only if the caller's session booking is
\* complete and its waiting_for_confirmation flag is true.
C2_ConfirmOnlyAfterSummary ==
    [][(result'.op = "create_booking" /\ appointments' # appointments)
          => /\ is_complete(userdata[result'.who].current_booking)
             /\ userdata[result'.who].waiting_for_confirmation]_vars

\* C3: a book_appointment call for a (date, slot) that already holds 2 records is
\* rejected and persists nothing: its write does not add a record to the pair, and
\* it does not return a confirmation for a pair that holds more than 2.
C3_FullSlotRejected ==
    /\ [][(/\ result'.op = "create_booking"
            /\ turn' # turn
            /\ SlotCount(result'.args.date, result'.args.time) >= MAX_BOOKINGS_PER_SLOT)
              => appointments' = appointments]_vars
    /\ []((/\ result.op = "book_appointment"
            /\ SlotCount(result.args.date, result.args.time) > MAX_BOOKINGS_PER_SLOT)
              => result.value.kind # "confirmation")

\* C4: two conversations that each check and then book the same (date, slot) while
\* it holds 1 record: whenever both were told the slot is available at count 1 and
\* each then made its one booking of that slot, both bookings are persisted and the
\* pair ends with 3 records, one over capacity.
RacePairs ==
    {p \in Convs \X Convs :
        /\ p[1] # p[2]
        /\ \A i \in 1 .. 2 :
              /\ turn[p[i]].pc = "booked"
              /\ turn[p[i]].check.kind = "available"
              /\ turn[p[i]].check.slot_count = <<1>>
              /\ turn[p[i]].check.date = turn[p[1]].check.date
              /\ turn[p[i]].check.time = turn[p[1]].check.time
              /\ turn[p[i]].book.kind = "confirmation"
              /\ turn[p[i]].book.appointment_date = turn[p[i]].check.date
              /\ turn[p[i]].book.appointment_time = turn[p[i]].check.time}

C4_BothObserveBothPersist ==
    \A p \in RacePairs :
        /\ \A i \in 1 .. 2 :
              \E d \in BagToSet(appointments) :
                  /\ d.customer_name = Customer(p[i]).customer_name
                  /\ d.appointment_date = turn[p[i]].check.date
                  /\ d.appointment_time = turn[p[i]].check.time
        /\ SlotCount(turn[p[1]].check.date, turn[p[1]].check.time) = MAX_BOOKINGS_PER_SLOT + 1

C4_Witness ==
    \E p \in RacePairs :
        SlotCount(turn[p[1]].check.date, turn[p[1]].check.time) = MAX_BOOKINGS_PER_SLOT + 1


(***************************************************************************)
(* Claims about help requests.                                             *)
(***************************************************************************)
\* A stored field, read the way Optional fields are: a missing key reads as None.
Field(doc, f) == IF f \in DOMAIN doc THEN doc[f] ELSE None
NumberField(doc, f) == IF f \in DOMAIN doc THEN doc[f] ELSE NoNumber

HelpRequestIds == {i \in DOMAIN help_requests : DOMAIN help_requests[i] # {}}

\* C5: for every stored help request, answer and response_time_seconds are both
\* non-null exactly when its status is resolved.
C5_AnswerIffResolved ==
    \A i \in DOMAIN help_requests :
        (/\ Field(help_requests[i], "answer") # None
         /\ NumberField(help_requests[i], "response_time_seconds") # NoNumber)
        <=> Field(help_requests[i], "status") = RESOLVED

C5_Witness ==
    \E i \in HelpRequestIds :
        /\ help_requests[i].status = RESOLVED
        /\ help_requests[i].answer \in {r.answer : r \in SupervisorResponses}
        /\ help_requests[i].response_time_seconds # NoNumber

\* C6: a help request is created pending, its status is only ever pending or
\* resolved, and a resolved request stays resolved.
C6_StatusLifecycle ==
    /\ [](\A i \in HelpRequestIds : help_requests[i].status \in {PENDING, RESOLVED})
    /\ [][/\ \A i \in (DOMAIN help_requests') \ (DOMAIN help_requests) :
                help_requests'[i].status = PENDING
          /\ \A i \in HelpRequestIds :
                /\ i \in DOMAIN help_requests'
                /\ help_requests[i].status = RESOLVED => help_requests'[i].status = RESOLVED]_vars

\* Two resolves that both read the request pending have both updated it.
C6_Witness ==
    /\ resolutions = 2
    /\ \E i \in HelpRequestIds : help_requests[i].status = RESOLVED
    /\ Cardinality({call \in calls : /\ call.op = "resolve_help_request"
                                      /\ call.stage \in {"updated", "posted"}
                                      /\ call.help_request.status = PENDING}) = 2

\* C7: whatever the supervisor webhook does (not configured, 200, another status,
\* timeout, exception), a create whose document was written returns the request
\* id; the request was stored pending and neither the POST nor its coming back
\* changes it; only the update of a resolve ends its being pending; and
\* get_pending_requests, unless its query raised (the call then ends with that
\* error, nothing changed), hands back the list its fetch built, which holds each
\* request stored with status pending at the fetch once, and no other.
C7_CreateSurvivesWebhook ==
    [][/\ (result'.op = "create_help_request" /\ result'.env.webhook # "not_reached")
            => /\ result'.value.kind = "request_id"
               /\ result'.value.request_id \in HelpRequestIds
               /\ help_requests' = help_requests
               /\ help_requests[result'.value.request_id][QuestionField]
                     = result'.args.question
       /\ result'.op = "notify_supervisor" => help_requests' = help_requests
       /\ \A i \in (DOMAIN help_requests') \ (DOMAIN help_requests) :
             help_requests'[i].status = PENDING
       /\ \A i \in HelpRequestIds :
             (help_requests[i].status = PENDING /\ help_requests'[i].status # PENDING)
                => /\ result'.op = "update_doc"
                   /\ result'.args.request_id = i
       /\ result'.op = "fetch_pending"
            => /\ \A i \in DOMAIN help_requests :
                     Field(help_requests[i], "status") = PENDING
                        <=> i \in Range(result'.value.ids)
               /\ \A m, n \in DOMAIN result'.value.ids :
                     result'.value.ids[m] = result'.value.ids[n] => m = n
       /\ (result'.op = "get_pending_requests" /\ result'.env.store)
            => \E call \in calls \ calls' :
                  /\ call.op = "get_pending_requests"
                  /\ result'.value.ids = call.ids
       /\ (result'.op = "get_pending_requests" /\ ~result'.env.store)
            => /\ result'.value.kind = "store_error"
               /\ calls' = calls
               /\ help_requests' = help_requests]_vars

\* A create returns its id after the webhook timed out, and a fetch made since
\* the write holds the request.
C7_Witness ==
    /\ result.op = "create_help_request"
    /\ result.env.webhook = "timeout"
    /\ result.value.kind = "request_id"
    /\ \E call \in calls :
          /\ call.op = "get_pending_requests"
          /\ result.value.request_id \in Range(call.ids)

\* C8: a resolve whose read finds no document under the id fails with not-found,
\* and one whose read finds a document with no fields fails with corrupt-record;
\* a resolve goes on to its update only having read a document with fields; a
\* resolve that fails in either way changes no help request, adds no knowledge
\* item, sends no callback and is over.
C8_ResolveRejectsMissingAndEmpty ==
    [][/\ (result'.op = "resolve_help_request" /\ result'.env.store)
          => LET request_id == result'.args.request_id
             IN  /\ request_id \notin DOMAIN help_requests
                        => result'.value.kind = "not_found"
                 /\ (request_id \in DOMAIN help_requests
                        /\ DOMAIN help_requests[request_id] = {})
                        => result'.value.kind = "corrupt_record"
                 /\ result'.value.kind \in {"not_found", "corrupt_record"}
                        => /\ help_requests' = help_requests
                           /\ knowledge' = knowledge
                           /\ callbacks' = callbacks
                           /\ calls' = calls
       /\ result'.op = "doc_get"
          => /\ result'.args.request_id \in DOMAIN help_requests
             /\ DOMAIN help_requests[result'.args.request_id] # {}
       /\ \A call \in calls' :
             call.op = "resolve_help_request"
                => /\ call.args.request_id \in DOMAIN help_requests
                   /\ DOMAIN call.help_request # {}]_vars

C8_Witness ==
    /\ result.op = "resolve_help_request"
    /\ result.value.kind = "corrupt_record"
    /\ result.args.request_id = EmptyDocId
    /\ \E i \in HelpRequestIds : help_requests[i].status = PENDING
    /\ \E call \in calls : call.op = "resolve_help_request" /\ call.stage = "read"

\* The resolve call that ends in this step, as it was suspended.
EndingResolves ==
    {call \in calls :
        /\ call.op = "resolve_help_request"
        /\ \A other \in calls' :
              other.op = "resolve_help_request" => other.number # call.number}

\* C9: every resolve that has updated a request to resolved, with a callback URL
\* configured, ends having made one callback attempt carrying the request id,
\* room, original question and answer, whatever add_to_kb is and however the
\* knowledge step ends.
C9_CallbackAfterEveryResolution ==
    [][\A call \in EndingResolves :
          (config.ai_callback_url /\ call.stage \in {"updated", "posted"})
             => /\ call.stage = "posted"
                /\ \E i \in DOMAIN callbacks :
                      /\ callbacks[i].request_id = call.args.request_id
                      /\ callbacks[i].room_name = call.help_request.room_name
                      /\ callbacks[i].original_question = call.help_request[QuestionField]
                      /\ callbacks[i].answer = call.args.response.answer]_vars

\* C10: the knowledge index changes only by a resolve with add_to_kb = true
\* appending its one item (the request's question, the supervisor's answer, the
\* category); a resolve with add_to_kb = true succeeds only having added its item;
\* the FAQ list never changes.
C10_ResolveKnowledgeEffect ==
    [][/\ knowledge' # knowledge
            => /\ result'.op = "qdrant_upsert"
               /\ result'.args.add_to_kb
               /\ knowledge' = Append(knowledge,
                     [question |-> help_requests[result'.args.request_id][QuestionField],
                      answer |-> result'.args.response.answer,
                      category |-> result'.args.response.kb_category])
       /\ (result'.op = "resolve_help_request" /\ result'.value.kind = "resolved")
            => \A call \in EndingResolves :
                  /\ call.args.add_to_kb <=> call.kb = "added"
                  /\ call.args.add_to_kb
                        => \E i \in DOMAIN knowledge :
                              /\ knowledge[i].question = call.help_request[QuestionField]
                              /\ knowledge[i].answer = call.args.response.answer
       /\ faq_cache' = faq_cache]_vars

\* C11: after create(X) and a successful resolve(id, Y, add_to_kb = true), a
\* semantic search for any query that scores at or above the threshold against X
\* can return Y.
C11_ResolvedAnswerRetrievable ==
    [][(/\ result'.op = "resolve_help_request"
        /\ result'.value.kind = "resolved"
        /\ result'.args.add_to_kb)
          => \A query \in KnowledgeQueries :
                Similarity(query, help_requests[result'.args.request_id][QuestionField])
                      >= SimilarityThreshold
                   => result'.args.response.answer
                         \in SearchKnowledgeResults(knowledge', query)]_vars

(***************************************************************************)
(* Claims about request_help.                                              *)
(***************************************************************************)
\* The query the tiers are given for a question: stripped, then lower-cased.
TierQuery(question) == str_lower(str_strip(question))

NoTierAnswers(question) ==
    /\ SearchFaqResult(faq_cache, TierQuery(question)) = None
    /\ SearchKnowledgeResults(knowledge, TierQuery(question)) = {None}

\* C12: when the question matches the FAQ tier, request_help of app/agent.py
\* returns the FAQ answer and does not call search_knowledge.
C12_FaqAnswerShortCircuits ==
    (/\ result.op = "request_help"
     /\ result.env.agent = "agent"
     /\ SearchFaqResult(faq_cache, TierQuery(result.args.question)) # None)
       => /\ result.value.kind = "answer"
          /\ result.value.answer = SearchFaqResult(faq_cache, TierQuery(result.args.question))
          /\ "search_knowledge" \notin Range(result.env.calls)

\* C13: request_help creates a help request only after it has tried the FAQ tier
\* and then the semantic tier for the question and neither has an answer.
C13_EscalationGated ==
    [][\A call \in calls' \ calls :
          (call.op = "create_help_request" /\ call.caller.tool = "request_help")
             => /\ call.caller.calls = <<"search_faq", "search_knowledge">>
                /\ NoTierAnswers(call.caller.question)]_vars

\* C14: when neither tier has an answer for the question and the store accepts
\* the write, request_help returns its hold-on message and has by then created a
\* help request holding the question, pending until a supervisor resolves it.
C14_UnresolvedQuestionEscalates ==
    [][(/\ result'.op = "request_help"
        /\ NoTierAnswers(result'.args.question)
        /\ result'.env.store # "store_error")
          => /\ result'.value.kind = "hold_on"
             /\ \E i \in DOMAIN help_requests' :
                   /\ DOMAIN help_requests'[i] # {}
                   /\ help_requests'[i].status = PENDING \/ resolutions' > 0
                   /\ help_requests'[i][QuestionField]
                         = str_strip(result'.args.question)]_vars

(***************************************************************************)
(* Claims about availability.                                              *)
(***************************************************************************)
\* The number of records a store holds for a date and time.
RecordsIn(bag, date, time) ==
    BagCardinality([d \in {x \in BagToSet(bag) :
                              x.appointment_date = date /\ x.appointment_time = time}
                        |-> CopiesIn(d, bag)])

\* The slots, in the order of the slot list, that hold fewer than 2 records.
UnderCapacity(date) ==
    SelectSeq(<<"9:00 AM", "10:00 AM", "11:00 AM", "1:00 PM", "2:00 PM", "3:00 PM", "4:00 PM">>,
              LAMBDA slot : RecordsIn(appointments, date, slot) < 2)

\* The returns of the loops over all_slots (agent.py:362-397): their list is built
\* from one count query per slot.
LoopReturn(value) == value.kind \in {"full", "all_full", "times", "fully_booked"}

\* The returns that recite available times: those of the loops, and the
\* outside-hours answer (agent.py:360), which recites all_slots as they are.
ListsSlots(value) == LoopReturn(value) \/ value.kind = "outside_hours"

\* A step in which the check_availability call of result'.who ran one iteration
\* of its loop over all_slots, the slot it queried, and its list before and after.
\* The outside-hours answer returns before any loop and runs no iteration.
RanIteration ==
    \/ /\ result'.op = "count_query"
       /\ turn[result'.who].pc = "checking" \/ result'.args.time = ""
    \/ /\ result'.op = "check_availability"
       /\ LoopReturn(result'.value)

ListBefore ==
    IF turn[result'.who].pc = "checking" THEN turn[result'.who].check.slots ELSE <<>>

QueriedSlot ==
    all_slots[IF turn[result'.who].pc = "checking" THEN turn[result'.who].check.next ELSE 1]

ListAfter ==
    IF result'.op = "count_query" THEN turn'[result'.who].check.slots ELSE result'.value.slots

\* A step in which the call queried the count of the slot it was asked about.
QueriedAskedSlot ==
    /\ result'.op \in {"count_query", "check_availability"}
    /\ turn[result'.who].pc # "checking"
    /\ result'.env.store
    /\ result'.args.time \in Range(all_slots)

CountAfter ==
    IF result'.op = "count_query" THEN turn'[result'.who].check.slot_count
    ELSE result'.value.slot_count

\* C15 as stated: every successful reservation adds one record to its (date, time)
\* pair and to no other, the count check_availability returns for a pair is the
\* number of records in it, and the list it returns holds no slot with 2 or more.
C15_CountEqualsReservations ==
    /\ []((result.op = "check_availability" /\ result.env.store)
            => /\ result.value.slot_count # NoNumber
                    => result.value.slot_count
                          = <<RecordsIn(appointments, result.args.date, result.args.time)>>
               /\ LoopReturn(result.value)
                    => \A slot \in Range(result.value.slots) :
                          RecordsIn(appointments, result.args.date, slot) < 2)
    /\ [][\A date \in Dates, time \in Range(all_slots) \cup BookTimes :
            RecordsIn(appointments', date, time)
               = RecordsIn(appointments, date, time)
                   + (IF /\ result'.op = "create_booking"
                         /\ result'.value.kind = "stored"
                         /\ result'.args.date = date
                         /\ result'.args.time = time
                      THEN 1 ELSE 0)]_vars
    /\ [][(result'.op = "book_appointment" /\ result'.value.kind = "confirmation")
            => /\ turn' # turn
               /\ appointments' = appointments
               /\ \E d \in BagToSet(appointments) :
                     /\ d.customer_name = result'.value.customer_name
                     /\ d.confirmation_number = result'.value.confirmation_number
                     /\ d.appointment_date = result'.args.date
                     /\ d.appointment_time = result'.args.time]_vars

\* C15 amended: every successful reservation adds one record to its (date, time)
\* pair and to no other; the count check_availability observes for the pair it is
\* asked about is the number of records in the pair when it is queried; and a slot
\* enters the list of available slots only if it held fewer than 2 records when
\* its count was queried.
C15_CountsAsQueried ==
    /\ [][/\ QueriedAskedSlot
               => CountAfter = <<RecordsIn(appointments, result'.args.date, result'.args.time)>>
          /\ RanIteration
               => \A slot \in Range(ListAfter) \ Range(ListBefore) :
                     /\ slot = QueriedSlot
                     /\ RecordsIn(appointments, result'.args.date, slot) < 2]_vars
    /\ [][\A date \in Dates, time \in Range(all_slots) \cup BookTimes :
            RecordsIn(appointments', date, time)
               = RecordsIn(appointments, date, time)
                   + (IF /\ result'.op = "create_booking"
                         /\ result'.value.kind = "stored"
                         /\ result'.args.date = date
                         /\ result'.args.time = time
                      THEN 1 ELSE 0)]_vars
    /\ [][(result'.op = "book_appointment" /\ result'.value.kind = "confirmation")
            => /\ turn' # turn
               /\ appointments' = appointments
               /\ \E d \in BagToSet(appointments) :
                     /\ d.customer_name = result'.value.customer_name
                     /\ d.confirmation_number = result'.value.confirmation_number
                     /\ d.appointment_date = result'.args.date
                     /\ d.appointment_time = result'.args.time]_vars

\* A returned list names a slot that filled up after its count was queried.
C15_Witness ==
    /\ result.op = "check_availability"
    /\ result.value.kind = "times"
    /\ \E slot \in Range(result.value.slots) :
          /\ RecordsIn(appointments, result.args.date, slot) = 2
          /\ \E d \in BagToSet(appointments) :
                /\ d.customer_name = "Jane Doe"
                /\ d.appointment_date = result.args.date
                /\ d.appointment_time = slot

\* C16 as stated: for a slot holding 2 reservations check_availability reports the
\* slot as full with exactly the other slots under capacity as alternatives, or,
\* when there is no such slot, reports the whole date as fully booked.
C16_FullSlotAlternatives ==
    (/\ result.op = "check_availability"
     /\ result.env.store
     /\ result.args.time \in Range(all_slots)
     /\ RecordsIn(appointments, result.args.date, result.args.time) = 2)
       => LET others == {slot \in Range(all_slots) \ {result.args.time} :
                            RecordsIn(appointments, result.args.date, slot) < 2}
          IN  IF others # {}
              THEN /\ result.value.kind = "full"
                   /\ Range(result.value.slots) = others
                   /\ Len(result.value.slots) = Cardinality(others)
              ELSE /\ result.value.kind = "all_full"
                   /\ result.value.slots = <<>>

\* C16 amended: asked about a slot that holds 2 reservations, check_availability
\* does not report it available but goes through the slots; its alternatives
\* never contain the asked slot and contain every other slot exactly if that slot
\* held fewer than 2 records when its count was queried; it reports the slot as
\* full when the alternatives are not empty and the whole date as fully booked
\* when they are.
C16_AlternativesAsQueried ==
    [][/\ (QueriedAskedSlot
             /\ RecordsIn(appointments, result'.args.date, result'.args.time) >= 2)
            => /\ result'.op = "count_query"
               /\ turn'[result'.who].check.slots = <<>>
       /\ (RanIteration /\ result'.args.time # "")
            => /\ ListAfter
                    = IF /\ RecordsIn(appointments, result'.args.date, QueriedSlot) < 2
                         /\ QueriedSlot # result'.args.time
                      THEN Append(ListBefore, QueriedSlot)
                      ELSE ListBefore
               /\ result'.op = "check_availability"
                    => /\ result'.value.kind = "full" <=> result'.value.slots # <<>>
                       /\ result'.value.kind = "all_full" <=> result'.value.slots = <<>>]_vars

\* The alternatives for a full slot name a slot that filled up during the call and
\* leave out none that is free.
C16_Witness ==
    /\ result.op = "check_availability"
    /\ result.value.kind = "full"
    /\ RecordsIn(appointments, result.args.date, result.args.time) = 2
    /\ \E slot \in Range(result.value.slots) :
          RecordsIn(appointments, result.args.date, slot) = 2
    /\ \E slot \in Range(result.value.slots) :
          RecordsIn(appointments, result.args.date, slot) = 1

\* C17: check_availability with a time that is not one of the seven slots
\* answers outside business hours, whatever the store holds.
C17_OutsideHoursDistinct ==
    (/\ result.op = "check_availability"
     /\ result.env.store
     /\ result.args.time # ""
     /\ result.args.time \notin Range(all_slots))
       => result.value.kind = "outside_hours"

\* C18: the list of available times check_availability returns for a date is
\* exactly the slots with fewer than 2 records, in the order 9:00 AM, 10:00 AM,
\* 11:00 AM, 1:00 PM, 2:00 PM, 3:00 PM, 4:00 PM; its head is the earliest.
C18_AvailableInCanonicalOrder ==
    (result.op = "check_availability" /\ ListsSlots(result.value))
       => /\ result.value.slots = UnderCapacity(result.args.date)
          /\ result.value.kind \in {"full", "times", "outside_hours"}
                <=> result.value.slots # <<>>

(***************************************************************************)
(* Claims about what may be booked.                                        *)
(***************************************************************************)
\* Year, month and day of the dates callers name.
DateParts(date) ==
    CASE date = "March 3, 2025" -> [year |-> 2025, month |-> 3, day |-> 3]
      [] date = "March 6, 2025" -> [year |-> 2025, month |-> 3, day |-> 6]

\* Zeller's congruence: 0 is Saturday, 1 Sunday, ..., 5 Thursday, 6 Friday.
Weekday(date) ==
    LET p == DateParts(date)
        m == IF p.month < 3 THEN p.month + 12 ELSE p.month
        y == IF p.month < 3 THEN p.year - 1 ELSE p.year
    IN  (p.day + ((13 * (m + 1)) \div 5) + (y % 100) + ((y % 100) \div 4)
           + ((y \div 100) \div 4) + 5 * (y \div 100)) % 7

IsClosedDay(date) == Weekday(date) = 5

\* C19: no booking is made for a date that falls on a Thursday, whatever the time
\* and the occupancy: book_appointment refuses it and the store never holds a
\* record for such a date.
C19_ClosedDayRejected ==
    /\ \A d \in BagToSet(appointments) : ~IsClosedDay(d.appointment_date)
    /\ (result.op = "book_appointment" /\ IsClosedDay(result.args.date))
          => result.value.kind # "confirmation"

\* The characters of the phone numbers callers give.
PhoneChars(phone) ==
    CASE phone = "555-123-4567" -> <<"5", "5", "5", "-", "1", "2", "3", "-", "4", "5", "6", "7">>
      [] phone = "12345" -> <<"1", "2", "3", "4", "5">>
      [] phone = "5550001111" -> <<"5", "5", "5", "0", "0", "0", "1", "1", "1", "1">>
      [] phone = "" -> <<>>

IsDigit(ch) == ch \in {"0", "1", "2", "3", "4", "5", "6", "7", "8", "9"}

IsTenDigits(phone) ==
    /\ Len(PhoneChars(phone)) = 10
    /\ \A i \in DOMAIN PhoneChars(phone) : IsDigit(PhoneChars(phone)[i])

\* C20: every appointment record in the store has a phone_number of exactly 10
\* digits and nothing else.
C20_StoredPhoneIsTenDigits ==
    \A d \in BagToSet(appointments) : IsTenDigits(d.phone_number)

\* C21: book_appointment with a service whose lower-cased name is not in the price
\* list answers with a rejection that lists the valid services and writes no
\* record; every stored record carries the price-list price of its lower-cased
\* service.
C21_UnknownServiceRejected ==
    /\ [](\A d \in BagToSet(appointments) :
            /\ Lower(d.service) \in PricedServices
            /\ d.price = service_prices(Lower(d.service)))
    /\ [][(result'.op = "book_appointment"
           /\ Lower(result'.args.service) \notin PricedServices)
             => /\ result'.value.kind = "unrecognized_service"
                /\ result'.value.services
                      = <<"Haircut", "Hair Coloring", "Highlights", "Blow Dry", "Hair Treatment">>
                /\ appointments' = appointments]_vars

C21_Witness ==
    /\ result.op = "book_appointment"
    /\ result.args.service = "Massage"
    /\ result.value.kind = "unrecognized_service"
    /\ \E d \in BagToSet(appointments) : d.customer_name = "Jane Doe" /\ d.price = 40

\* C22: two bookings created at different millisecond timestamps carry different
\* confirmation numbers.
C22_DistinctTimestampsDistinctNumbers ==
    \A d1, d2 \in BagToSet(appointments) :
        d1.created_at # d2.created_at => d1.confirmation_number # d2.confirmation_number

\* C23: appointment records are only ever added: every step keeps each stored
\* record with at least its multiplicity, so the number of records of a slot
\* never decreases.
C23_AppendOnly ==
    [][/\ appointments \sqsubseteq appointments'
       /\ \A date \in Dates, time \in BookTimes :
             RecordsIn(appointments', date, time) >= RecordsIn(appointments, date, time)]_vars

C23_Witness ==
    /\ BagCardinality(appointments) = 3
    /\ BagIn(EarlierBooking, appointments)
    /\ result.op = "check_availability"

\* C24: add_query appends the query to previous_queries and drops the oldest
\* entry once there are more than 10, so the list always holds the most recent
\* min(n, 10) queries in call order.
C24_RecentQueriesKept ==
    /\ [](\A c \in Convs : Len(userdata[c].previous_queries) <= 10)
    /\ [][result'.op = "add_query"
            => LET c == result'.who
                   all == Append(userdata[c].previous_queries,
                                 [query |-> result'.args.query, timestamp |-> now])
                   kept == IF Len(all) < 10 THEN Len(all) ELSE 10
               IN  /\ Len(userdata'[c].previous_queries) = kept
                   /\ \A i \in 1..kept :
                         userdata'[c].previous_queries[i] = all[Len(all) - kept + i]]_vars

C24_Witness ==
    /\ result.op = "add_query"
    /\ result.env.entries = 10
    /\ Len(userdata["convA"].previous_queries) = 10
    /\ userdata["convA"].previous_queries[10].query = "when are you open"
    /\ userdata["convA"].previous_queries[9].query = "do you do nails"

\* C25: is_complete() is true exactly when customer_name, phone_number, service,
\* appointment_date and appointment_time are all non-empty; price and confirmed
\* do not influence it.
C25_CompleteIffFiveFields ==
    result.op = "is_complete"
       => LET b == userdata[result.who].current_booking
              filled(v) == v # None /\ v # ""
          IN  /\ result.value.complete
                    <=> (/\ filled(b.customer_name)
                         /\ filled(b.phone_number)
                         /\ filled(b.service)
                         /\ filled(b.appointment_date)
                         /\ filled(b.appointment_time))
              /\ \A p \in {NoNumber, <<40>>}, cf \in BOOLEAN :
                    is_complete([b EXCEPT !.price = p, !.confirmed = cf])
                       = result.value.complete

C25_Witness ==
    /\ result.op = "is_complete"
    /\ result.value.complete
    /\ userdata["convA"].current_booking.price = NoNumber
    /\ ~userdata["convA"].current_booking.confirmed

\* C27: after a successful book_appointment the caller's session has
\* conversation_state = completed and is reset (booking fields cleared,
\* waiting_for_confirmation false, validation_errors empty, retry_count 0), with
\* previous_queries and availability_checks left as they were.
C27_SessionCompletedAndReset ==
    [][(result'.op = "book_appointment" /\ result'.value.kind = "confirmation")
          => LET before == userdata[result'.who]
                 after == userdata'[result'.who]
             IN  /\ after.conversation_state = "completed"
                 /\ after.current_booking = BookingContext
                 /\ ~after.waiting_for_confirmation
                 /\ after.validation_errors = <<>>
                 /\ after.retry_count = 0
                 /\ after.previous_queries = before.previous_queries
                 /\ after.availability_checks = before.availability_checks]_vars

\* C28: when the write of the appointment fails during book_appointment, no
\* second attempt is made: the store is left as it was and the caller gets the
\* fixed ask-my-supervisor message.
C28_FailedWriteNotRetried ==
    [][(/\ result'.op = "book_appointment"
        /\ Lower(result'.args.service) \in PricedServices
        /\ ~result'.env.store)
          => /\ result'.value.kind = "supervisor_fallback"
             /\ appointments' = appointments]_vars

C28_Witness ==
    /\ result.op = "book_appointment"
    /\ ~result.env.store
    /\ result.value.kind = "supervisor_fallback"
    /\ BagCardinality(appointments) >= 1

\* C29: a book_appointment whose write fails raises the caller's retry_count by
\* exactly one; any other step leaves every retry_count as it was or sets it to 0.
C29_RetryCountCountsFailures ==
    [][\A c \in Convs :
          IF /\ result'.op = "book_appointment"
             /\ result'.who = c
             /\ result'.value.kind = "supervisor_fallback"
          THEN userdata'[c].retry_count = userdata[c].retry_count + 1
          ELSE userdata'[c].retry_count \in {userdata[c].retry_count, 0}]_vars

\* C30: book_appointment, check_availability and request_help always hand the
\* caller a normal result or one of their fixed fallback messages, whatever the
\* store, the search service or the webhook did; never an exception or an
\* internal object.
C30_ToolsReturnResultOrFallback ==
    result.op \in {"book_appointment", "check_availability", "request_help"}
       => result.value.kind \in
             {"confirmation", "unrecognized_service", "supervisor_fallback",
              "outside_hours", "error", "available", "full", "all_full", "times",
              "fully_booked", "answer", "hold_on", "technical_issue"}

\* C31: a webhook is posted only in the notify step of a create and a callback
\* only in the notify step of a resolve, one POST by a call that has not posted
\* before and that waits for it from then on; a call that has posted never posts
\* again; when the POST times out, raises or comes back with a non-success
\* status, nothing more is sent, the call still returns, and the record keeps the
\* state that was committed (as written by the create, resolved after the
\* resolve).
C31_OneAttemptNoRollback ==
    /\ [](/\ \A i, j \in DOMAIN webhooks :
                webhooks[i].request_id = webhooks[j].request_id => i = j
          /\ Len(callbacks) <= resolutions)
    /\ [][/\ webhooks' # webhooks
             => /\ result'.op = "notify_supervisor"
                /\ \E call \in calls :
                      /\ call.op = "create_help_request"
                      /\ call.stage = "written"
                      /\ calls' = (calls \ {call}) \cup {[call EXCEPT !.stage = "posted"]}
                      /\ Len(webhooks') = Len(webhooks) + 1
                      /\ SubSeq(webhooks', 1, Len(webhooks)) = webhooks
                      /\ webhooks'[Len(webhooks')].request_id = call.request_id
          /\ callbacks' # callbacks
             => /\ result'.op = "notify_ai_agent"
                /\ \E call \in calls :
                      /\ call.op = "resolve_help_request"
                      /\ call.stage = "updated"
                      /\ \E posted \in calls' \ calls :
                            /\ posted.number = call.number
                            /\ posted.stage = "posted"
                            /\ calls' = (calls \ {call}) \cup {posted}
                      /\ Len(callbacks') = Len(callbacks) + 1
                      /\ SubSeq(callbacks', 1, Len(callbacks)) = callbacks
                      /\ callbacks'[Len(callbacks')].request_id = call.args.request_id
          /\ \A call \in calls :
                call.stage = "posted"
                   => \/ call \in calls'
                      \/ /\ \A other \in calls' : other.number # call.number
                         /\ result'.op = call.op
          /\ (result'.op = "create_help_request"
              /\ result'.env.webhook \in {"timeout", "exception", "non_200"})
             => /\ webhooks' = webhooks
                /\ callbacks' = callbacks
                /\ result'.value.kind = "request_id"
                /\ help_requests' = help_requests
                /\ help_requests[result'.value.request_id].status \in {"pending", "resolved"}
                /\ help_requests[result'.value.request_id].status = "resolved"
                      => resolutions > 0
                /\ \E i \in DOMAIN webhooks :
                      webhooks[i].request_id = result'.value.request_id
                /\ \A call \in calls' : call.op = "create_help_request"
                                           => call.request_id # result'.value.request_id
          /\ (result'.op = "resolve_help_request"
              /\ result'.env.callback \in {"timeout", "exception", "non_200"})
             => /\ callbacks' = callbacks
                /\ webhooks' = webhooks
                /\ result'.value.kind = "resolved"
                /\ help_requests' = help_requests
                /\ help_requests[result'.args.request_id].status = "resolved"
                /\ \A call \in EndingResolves :
                      /\ call.stage = "posted"
                      /\ \E i \in DOMAIN callbacks :
                            /\ callbacks[i].request_id = call.args.request_id
                            /\ callbacks[i].answer = call.args.response.answer
                /\ EndingResolves # {}]_vars

\* A resolve returns after its callback timed out, while the create of the
\* request still waits for its webhook POST to come back.
C31_Witness ==
    /\ result.op = "resolve_help_request"
    /\ result.env.callback = "timeout"
    /\ Len(callbacks) = 1
    /\ Len(webhooks) = 1
    /\ help_requests[result.args.request_id].status = "resolved"
    /\ \E call \in calls :
          /\ call.op = "create_help_request"
          /\ call.stage = "posted"
          /\ call.request_id = result.args.request_id

\* C32 (as stated): no step of search_faq or search_knowledge changes the
\* knowledge index or the FAQ cache, no step removes a knowledge item, and the
\* index changes only in the upsert of add_to_knowledge_base.
C32_OnlyAddChangesIndex ==
    [][/\ result'.op \in {"faq_search", "search_faq", "qdrant_search", "search_knowledge"}
          => knowledge' = knowledge /\ faq_cache' = faq_cache
       /\ Len(knowledge') >= Len(knowledge)
       /\ SubSeq(knowledge', 1, Len(knowledge)) = knowledge
       /\ knowledge' # knowledge => result'.op = "qdrant_upsert"]_vars

\* C32 (amended): no step of search_faq or search_knowledge changes the knowledge
\* index or the FAQ cache, no step removes a knowledge item, and the index
\* changes only in the upsert of add_to_knowledge_base and in the upsert of the
\* FAQ sync of initialize; neither upsert is undone when its call ends with an
\* exception.
C32_OnlyAddAndSyncChangeIndex ==
    [][/\ result'.op \in {"faq_search", "search_faq", "qdrant_search", "search_knowledge"}
          => knowledge' = knowledge /\ faq_cache' = faq_cache
       /\ Len(knowledge') >= Len(knowledge)
       /\ SubSeq(knowledge', 1, Len(knowledge)) = knowledge
       /\ knowledge' # knowledge
          => result'.op \in {"qdrant_upsert", "sync_faqs_to_qdrant"}
       /\ result'.op = "qdrant_upsert"
          => knowledge' = Append(knowledge, [question |-> result'.args.question,
                                             answer |-> result'.args.answer,
                                             category |-> result'.args.category])
       /\ result'.op = "sync_faqs_to_qdrant"
          => \E call \in calls : /\ call.op = "initialize"
                                  /\ knowledge' = knowledge \o call.points]_vars

\* The FAQ sync upserts its points while a semantic search is suspended and the
\* index holds a learned item.
C32_Witness ==
    /\ result.op = "sync_faqs_to_qdrant"
    /\ \E call \in calls : call.op = "search_knowledge"
    /\ LocalFileItems(knowledge) # {}
    /\ LearnedItems(knowledge) # {}

\* C33: once the FAQ sync has run, however often, the knowledge index holds
\* exactly one local_file item per curated FAQ entry.
C33_SyncIdempotent ==
    LocalFileItems(knowledge) # {}
       => \A i \in DOMAIN SALON_FAQ :
             Cardinality({j \in LocalFileItems(knowledge) :
                             knowledge[j].question = SALON_FAQ[i].question}) = 1

\* C34: the scan of search_faq finds the answer of the first cached entry, in
\* list order, one of whose whitespace-delimited lower-cased question tokens is a
\* substring of the lower-cased query, and finds no match exactly when there is
\* no such entry; search_faq returns what its scan found.
C34_FirstLexicalMatch ==
    [][/\ result'.op = "faq_search"
          => LET query == Chars(str_lower(result'.args.query))
                 hits == {i \in DOMAIN faq_cache :
                             LET tokens == lower_split[faq_cache[i].question]
                             IN  \E k \in DOMAIN tokens : IsSubstring(tokens[k], query)}
             IN  /\ hits = {} <=> result'.value.answer = None
                 /\ hits # {}
                       => \E i \in hits :
                             /\ \A j \in hits : i <= j
                             /\ result'.value.answer = faq_cache[i].answer
                 /\ \E call \in calls' \ calls :
                       /\ call.op = "search_faq"
                       /\ call.args = result'.args
                       /\ call.answer = result'.value.answer
       /\ result'.op = "search_faq"
          => \E call \in calls \ calls' :
                /\ call.op = "search_faq"
                /\ call.args = result'.args
                /\ result'.value.answer = call.answer]_vars

C34_Witness ==
    /\ result.op = "search_faq"
    /\ result.args.query = "What are your hours?"
    /\ faq_cache = SALON_FAQ
    /\ FaqMatches(faq_cache[1], result.args.query)
    /\ FaqMatches(faq_cache[2], result.args.query)
    /\ result.value.answer = "We are open 9 AM to 5 PM."

\* C35: the index search of search_knowledge yields the answer of the top-ranked
\* hit exactly when the index has a hit and the top score is at least 0.8 (80
\* percent); otherwise it yields no match, and never a hit that ranks below the
\* top; search_knowledge returns what its search yielded.
C35_TopHitAboveThreshold ==
    [][/\ result'.op = "qdrant_search"
          => LET score == [i \in DOMAIN knowledge |->
                              Similarity(result'.args.query, knowledge[i].question)]
                 top == {i \in DOMAIN knowledge :
                            \A j \in DOMAIN knowledge : score[j] <= score[i]}
             IN  /\ IF top # {} /\ (\E i \in top : score[i] >= 80)
                    THEN /\ result'.value.answer # None
                         /\ \E i \in top : result'.value.answer = knowledge[i].answer
                    ELSE result'.value.answer = None
                 /\ \E call \in calls' \ calls :
                       /\ call.op = "search_knowledge"
                       /\ call.stage = "searched"
                       /\ call.args = result'.args
                       /\ call.answer = result'.value.answer
       /\ (result'.op = "search_knowledge" /\ result'.env.index)
          => \E call \in calls \ calls' :
                /\ call.op = "search_knowledge"
                /\ call.args = result'.args
                /\ result'.value.answer = call.answer]_vars

C35_Witness ==
    /\ result.op = "search_knowledge"
    /\ result.env.index
    /\ result.args.query = "crypto payment"
    /\ \E i, j \in DOMAIN knowledge :
          /\ Similarity("crypto payment", knowledge[i].question) = 90
          /\ Similarity("crypto payment", knowledge[j].question) = 80
    /\ result.value.answer = "Yes, via X"

\* C36: every resolved help request stores a response_time_seconds that equals
\* its stored resolved_at minus its stored created_at and is not negative,
\* however the clock moves between the clock reads of the resolve.
C36_ResponseTimeIsResolvedMinusCreated ==
    \A id \in DOMAIN help_requests :
        (help_requests[id] # EmptyDoc /\ help_requests[id].status = "resolved")
           => /\ help_requests[id].response_time_seconds
                    = <<help_requests[id].resolved_at[1] - help_requests[id].created_at>>
              /\ help_requests[id].response_time_seconds[1] >= 0

\* C37: a resolve of a request that is already resolved, or that another resolve
\* overtakes, succeeds: its read is accepted and its update overwrites answer,
\* resolution_notes, response_time_seconds and resolved_at with the values it
\* built from its own clock reads; with add_to_kb = true
\* it ends having added its own knowledge item and, with a callback URL
\* configured, having sent its own callback.
C37_DoubleResolution ==
    [][/\ (/\ result'.op \in {"doc_get", "resolve_help_request"}
           /\ result'.env.store
           /\ result'.args.request_id \in DOMAIN help_requests
           /\ DOMAIN help_requests[result'.args.request_id] # {}
           /\ help_requests[result'.args.request_id].status = "resolved"
           /\ EndingResolves = {})
            => result'.op = "doc_get"
       /\ (/\ result'.op = "update_doc"
           /\ help_requests[result'.args.request_id].status = "resolved")
            => LET id == result'.args.request_id
                   response == result'.args.response
               IN  /\ help_requests'[id].answer = response.answer
                   /\ help_requests'[id].resolution_notes = response.resolution_notes
                   /\ \E call \in calls \ calls' :
                         /\ call.op = "resolve_help_request"
                         /\ call.stage = "timed"
                         /\ call.args = result'.args
                         /\ help_requests'[id].response_time_seconds
                               = call.response_time
                         /\ help_requests'[id].resolved_at
                               = call.update_data.resolved_at
       /\ \A call \in EndingResolves :
             (/\ resolutions >= 2
              /\ call.stage \in {"updated", "posted"}
              /\ result'.env.kb # "kb_error")
                => /\ result'.value.kind = "resolved"
                   /\ call.args.add_to_kb
                         => /\ call.kb = "added"
                            /\ \E i \in DOMAIN knowledge :
                                  knowledge[i].answer = call.args.response.answer
                   /\ config.ai_callback_url
                         => /\ call.stage = "posted"
                            /\ \E i \in DOMAIN callbacks :
                                  /\ callbacks[i].request_id = call.args.request_id
                                  /\ callbacks[i].answer = call.args.response.answer]_vars

\* C38: a resolve_help_request that ends with an error leaves the help request
\* with the status, answer and response_time_seconds it had when the call read it:
\* the step that ends it changes no document, and a call that ends with an error
\* after its update was applied finds them as it read them.
C38_FailedResolveChangesNothing ==
    [][(result'.op = "resolve_help_request" /\ result'.value.kind # "resolved")
          => /\ help_requests' = help_requests
             /\ \A call \in EndingResolves :
                   LET stored == help_requests'[call.args.request_id]
                   IN  call.stage \in {"updated", "posted"} =>
                       /\ stored.status = call.help_request.status
                       /\ stored.answer = call.help_request.answer
                       /\ stored.response_time_seconds
                             = call.help_request.response_time_seconds]_vars

\* C39: a supervisor webhook is posted only for a request that an earlier step
\* has written (pending, or resolved since), a callback only for a request that an
\* earlier step of the same resolve has updated to resolved, and a create or
\* resolve whose write fails, or a resolve that raises before its write, has
\* posted nothing and posts nothing.
C39_CommitBeforeNotify ==
    /\ [](/\ \A i \in DOMAIN webhooks :
               /\ webhooks[i].request_id \in DOMAIN help_requests
               /\ help_requests[webhooks[i].request_id].status \in {"pending", "resolved"}
          /\ \A i \in DOMAIN callbacks :
               /\ callbacks[i].request_id \in DOMAIN help_requests
               /\ help_requests[callbacks[i].request_id].status = "resolved")
    /\ [][/\ webhooks' # webhooks
             => /\ result'.op = "notify_supervisor"
                /\ webhooks'[Len(webhooks')].request_id \in HelpRequestIds
                /\ help_requests' = help_requests
                /\ \E call \in calls :
                      /\ call.op = "create_help_request"
                      /\ call.stage = "written"
                      /\ call.request_id = webhooks'[Len(webhooks')].request_id
          /\ (result'.op = "create_help_request" /\ ~result'.env.store)
             => /\ webhooks' = webhooks /\ callbacks' = callbacks
                /\ \A call \in calls \ calls' :
                      call.op = "create_help_request" => call.stage = "submitted"
          /\ callbacks' # callbacks
             => /\ result'.op = "notify_ai_agent"
                /\ callbacks'[Len(callbacks')].request_id \in HelpRequestIds
                /\ help_requests[callbacks'[Len(callbacks')].request_id].status = "resolved"
                /\ help_requests' = help_requests
                /\ \E call \in calls :
                      /\ call.op = "resolve_help_request"
                      /\ call.stage = "updated"
                      /\ call.args.request_id = callbacks'[Len(callbacks')].request_id
          /\ (/\ result'.op = "resolve_help_request"
              /\ result'.value.kind \in {"store_error", "type_error"})
             => /\ webhooks' = webhooks /\ callbacks' = callbacks
                /\ \A call \in EndingResolves :
                      call.stage = IF result'.value.kind = "type_error"
                                   THEN "read" ELSE "timed"]_vars

\* Both POSTs are out and neither call has returned: the webhook of a create
\* whose request is resolved by now, and the callback of the resolve.
C39_Witness ==
    /\ result.op = "notify_ai_agent"
    /\ Len(webhooks) = 1
    /\ Len(callbacks) = 1
    /\ help_requests[callbacks[1].request_id].status = "resolved"
    /\ \E call \in calls :
          /\ call.op = "create_help_request"
          /\ call.stage = "posted"
          /\ call.request_id = callbacks[1].request_id

====
